---- MODULE Spec2Model ----
(***************************************************************************)
(* Authentication / session lifecycle of the REST backend: the users,      *)
(* refresh_tokens and auth_logs tables, the JWT codec, the password        *)
(* hasher, and the handlers of AuthService / AuthController /              *)
(* UserController that read and write them.                                *)
(*                                                                         *)
(* Every handler is a step function over (database, call frame): one step  *)
(* per awaited store call, with the synchronous code that precedes it.     *)
(* A sequential specification runs a handler to completion in one action;  *)
(* a concurrent specification interleaves the steps of several calls.      *)
(* Time is counted in minutes.                                             *)
(***************************************************************************)
EXTENDS Integers, Sequences, FiniteSets, TLC

VARIABLES
    users,           \* rows of table users
    refresh_tokens,  \* rows of table refresh_tokens
    auth_logs,       \* rows of table auth_logs, in insertion order
    danger_zones,    \* rows of table danger_zones
    seq,             \* last value drawn from the uuid generators
    now,             \* the wall clock
    env,             \* process.env, fixed at start-up
    issued,          \* token strings that responses have handed to clients
    calls,           \* per connection: the call in progress or last completed
    client           \* the example client: its AuthService, AsyncStorage and tasks

vars == <<users, refresh_tokens, auth_logs, danger_zones, seq, now, env, issued, calls,
          client>>

--------------------------------------------------------------------------
(* Bounds of the model *)

MaxTime == 3
MaxLogs == 8
SessionLogs == 4
AccountLogs == 6
FaultLogs == 3
MaxSeq == 6
MaxTokens == 3
MaxFailed == 7
NProcs == 2
NTasks == 2
MaxZones == 2
\* configured values (environment variables), in minutes
LockoutCfg == 2
AccessTtlCfg == 1
RefreshTtlCfg == 2

Procs == 1..NProcs

(* Inputs *)

Usernames == {"alice", "bob"}
Emails == {"alice@x.com", "bob@x.com"}
Passwords == {"Str0ng!Pw", "0ther!Pw"}

--------------------------------------------------------------------------
(* Schema defaults and SQL NULL *)

NULL == 0

DefaultMaxAttempts == 5
DefaultLockoutTime == 15
\* radius = 10 (kilometres)
DefaultRadius == 10

\* parseInt(process.env.MAX_LOGIN_ATTEMPTS) || 5
maxAttempts(e) == IF e.MAX_LOGIN_ATTEMPTS = 0 THEN DefaultMaxAttempts ELSE e.MAX_LOGIN_ATTEMPTS

\* mutant: the configured lock duration is ignored
lockoutTime_default(e) == DefaultLockoutTime

\* parseInt(process.env.LOCKOUT_TIME) || 15
lockoutTime(e) == IF e.LOCKOUT_TIME = 0 THEN DefaultLockoutTime ELSE e.LOCKOUT_TIME

--------------------------------------------------------------------------
(* Password hasher (bcrypt): one-way wrapper; compare recovers equality *)

hashPassword(password) == [alg |-> "bcrypt", of |-> password]

comparePassword(password, hash) == hash.alg = "bcrypt" /\ hash.of = password

(* sha256 digest of a token string *)
sha256(token) == [sha256 |-> token]

--------------------------------------------------------------------------
(* Token codec (jsonwebtoken).  A token string is its claims together with *)
(* the signature over them: the claims signed and the secret used.  A      *)
(* string that is no JWT at all is the token of type "malformed".          *)

\* jwt.sign(claims, secret, options)
jwtSign(claims, secret) == claims @@ [sig |-> [over |-> claims, secret |-> secret]]

\* the claims a token string carries
Claims(token) == [x \in DOMAIN token \ {"sig"} |-> token[x]]

\* jwt.decode(token): the claims, unverified; null for a string that is no JWT
jwtDecode(token) == IF token.type = "malformed" THEN {} ELSE {Claims(token)}

generateAccessToken(payload, t, e) ==
    jwtSign([type |-> "access", userId |-> payload.id, username |-> payload.username,
             email |-> payload.email, tokenId |-> NULL,
             iat |-> t, exp |-> t + e.JWT_EXPIRES_IN,
             iss |-> "secure-auth-backend", aud |-> "react-native-app"],
            e.JWT_SECRET)

generateRefreshToken(payload, uuid, t, e) ==
    jwtSign([type |-> "refresh", userId |-> payload.id, username |-> payload.username,
             email |-> "", tokenId |-> uuid,
             iat |-> t, exp |-> t + e.JWT_REFRESH_EXPIRES_IN,
             iss |-> "secure-auth-backend", aud |-> "react-native-app"],
            e.JWT_REFRESH_SECRET)

generateTokens(user, uuid, t, e) ==
    [accessToken |-> generateAccessToken(user, t, e),
     refreshToken |-> generateRefreshToken(user, uuid, t, e),
     expiresIn |-> e.JWT_EXPIRES_IN]

\* mutant: the codec reads the claims without checking the signature
jwtVerify_unsigned(token, secret, t) ==
    /\ jwtDecode(token) # {}
    /\ t < token.exp
    /\ token.iss = "secure-auth-backend"
    /\ token.aud = "react-native-app"

\* jwt.verify(token, secret, {issuer, audience}): signature, expiry, iss, aud
jwtVerify(token, secret, t) ==
    /\ jwtDecode(token) # {}
    /\ token.sig = [over |-> Claims(token), secret |-> secret]
    /\ t < token.exp
    /\ token.iss = "secure-auth-backend"
    /\ token.aud = "react-native-app"

\* mutant: access tokens are verified with the refresh secret
verifyAccessToken_refreshSecret(token, t, e) == jwtVerify(token, e.JWT_REFRESH_SECRET, t)

verifyAccessToken(token, t, e) == jwtVerify(token, e.JWT_SECRET, t)

verifyRefreshToken(token, t, e) == jwtVerify(token, e.JWT_REFRESH_SECRET, t)

--------------------------------------------------------------------------
(* The store (PostgREST).  d = [users, refresh_tokens, auth_logs, seq].    *)

\* .single(): exactly one row or an error with no data
single(rows) ==
    IF Cardinality(rows) = 1 THEN [data |-> rows, error |-> FALSE]
    ELSE [data |-> {}, error |-> TRUE]

Row(rows) == CHOOSE r \in rows : TRUE

\* mutant: the existence check looks at the username only
selectUsersOr_usernameOnly(d, a, b) == {u \in d.users : u.username = a}

\* .or(`username.eq.${a},email.eq.${b}`)
selectUsersOr(d, a, b) == {u \in d.users : u.username = a \/ u.email = b}

selectUserById(d, id) == {u \in d.users : u.id = id}

\* mutant: the users table has lost its UNIQUE constraints
insertUser_noUnique(d, username, email, passwordHash, t) ==
    LET row == [id |-> d.seq + 1, username |-> username, email |-> email,
                password_hash |-> passwordHash, is_active |-> TRUE,
                failed_login_attempts |-> 0, locked_until |-> NULL,
                last_login |-> NULL]
    IN [d |-> [d EXCEPT !.users = @ \cup {row}, !.seq = @ + 1],
        data |-> {row}, error |-> FALSE]

\* INSERT INTO users: UNIQUE(username), UNIQUE(email); column defaults
insertUser(d, username, email, passwordHash, t) ==
    IF \E u \in d.users : u.username = username \/ u.email = email
    THEN [d |-> d, data |-> {}, error |-> TRUE]
    ELSE LET row == [id |-> d.seq + 1, username |-> username, email |-> email,
                     password_hash |-> passwordHash, is_active |-> TRUE,
                     failed_login_attempts |-> 0, locked_until |-> NULL,
                     last_login |-> NULL]
         IN [d |-> [d EXCEPT !.users = @ \cup {row}, !.seq = @ + 1],
             data |-> {row}, error |-> FALSE]

\* mutant: the failure update never writes locked_until
updateUserFailed_noLock(d, id, n, setLock, l) ==
    [d EXCEPT !.users =
        {IF u.id = id THEN [u EXCEPT !.failed_login_attempts = n] ELSE u : u \in @}]

\* mutant: the counter is incremented in the store, not written from the
\* value read earlier
updateUserFailed_increment(d, id, n, setLock, l) ==
    [d EXCEPT !.users =
        {IF u.id = id
         THEN [u EXCEPT !.failed_login_attempts = @ + 1,
                        !.locked_until = IF setLock THEN l ELSE @]
         ELSE u : u \in @}]

\* mutant: a failure on an account whose row still carries a lock starts the
\* count again
updateUserFailed_restart(d, id, n, setLock, l) ==
    [d EXCEPT !.users =
        {IF u.id = id
         THEN IF u.locked_until # NULL
              THEN [u EXCEPT !.failed_login_attempts = 1, !.locked_until = NULL]
              ELSE [u EXCEPT !.failed_login_attempts = n,
                             !.locked_until = IF setLock THEN l ELSE @]
         ELSE u : u \in @}]

\* UPDATE users SET failed_login_attempts = n [, locked_until = l] WHERE id
updateUserFailed(d, id, n, setLock, l) ==
    [d EXCEPT !.users =
        {IF u.id = id
         THEN [u EXCEPT !.failed_login_attempts = n,
                        !.locked_until = IF setLock THEN l ELSE @]
         ELSE u : u \in @}]

\* mutant: the success update resets the counter but keeps locked_until
updateUserReset_keepLock(d, id, t) ==
    [d EXCEPT !.users =
        {IF u.id = id
         THEN [u EXCEPT !.failed_login_attempts = 0, !.last_login = t]
         ELSE u : u \in @}]

\* UPDATE users SET failed_login_attempts = 0, locked_until = null, last_login
updateUserReset(d, id, t) ==
    [d EXCEPT !.users =
        {IF u.id = id
         THEN [u EXCEPT !.failed_login_attempts = 0, !.locked_until = NULL,
                        !.last_login = t]
         ELSE u : u \in @}]

\* UPDATE users SET password_hash WHERE id
updateUserPassword(d, id, h) ==
    [d EXCEPT !.users =
        {IF u.id = id THEN [u EXCEPT !.password_hash = h] ELSE u : u \in @}]

\* mutant: storing a refresh record clears the user's revoked ones away
insertRefreshToken_replaces(d, userId, tokenId, tokenHash, expiresAt) ==
    IF ~ \E u \in d.users : u.id = userId
    THEN [d |-> d, error |-> TRUE]
    ELSE [d |-> [d EXCEPT !.refresh_tokens =
                    {r \in @ : r.user_id # userId \/ ~ r.is_revoked} \cup
                    {[id |-> d.seq + 1, user_id |-> userId, token_id |-> tokenId,
                      token_hash |-> tokenHash, expires_at |-> expiresAt,
                      is_revoked |-> FALSE]},
                  !.seq = @ + 1],
          error |-> FALSE]

\* INSERT INTO refresh_tokens: user_id REFERENCES users, is_revoked DEFAULT false
insertRefreshToken(d, userId, tokenId, tokenHash, expiresAt) ==
    IF ~ \E u \in d.users : u.id = userId
    THEN [d |-> d, error |-> TRUE]
    ELSE [d |-> [d EXCEPT !.refresh_tokens = @ \cup
                    {[id |-> d.seq + 1, user_id |-> userId, token_id |-> tokenId,
                      token_hash |-> tokenHash, expires_at |-> expiresAt,
                      is_revoked |-> FALSE]},
                  !.seq = @ + 1],
          error |-> FALSE]

\* mutant: the lookup forgets the is_revoked filter
selectActiveToken_anyState(d, tokenId, tokenHash) ==
    {r \in d.refresh_tokens : r.token_id = tokenId /\ r.token_hash = tokenHash}

\* .eq('token_id').eq('token_hash').eq('is_revoked', false)
selectActiveToken(d, tokenId, tokenHash) ==
    {r \in d.refresh_tokens :
        r.token_id = tokenId /\ r.token_hash = tokenHash /\ ~ r.is_revoked}

\* mutant: the rotation's revocation matches no row
revokeTokenById_wrongColumn(d, id) ==
    [d EXCEPT !.refresh_tokens =
        {IF r.token_id = id THEN [r EXCEPT !.is_revoked = TRUE] ELSE r : r \in @}]

\* mutant: the rotation's revocation has lost its filter
revokeTokenById_everyRow(d, id) ==
    [d EXCEPT !.refresh_tokens = {[r EXCEPT !.is_revoked = TRUE] : r \in @}]

\* UPDATE refresh_tokens SET is_revoked = true WHERE id
revokeTokenById(d, id) ==
    [d EXCEPT !.refresh_tokens =
        {IF r.id = id THEN [r EXCEPT !.is_revoked = TRUE] ELSE r : r \in @}]

\* mutant: the logout's revocation filters on the row id, not the token id
revokeTokenByTokenId_wrongColumn(d, tokenId, userId) ==
    [d EXCEPT !.refresh_tokens =
        {IF r.id = tokenId /\ r.user_id = userId
         THEN [r EXCEPT !.is_revoked = TRUE] ELSE r : r \in @}]

\* mutant: the logout flips is_revoked instead of setting it
revokeTokenByTokenId_toggle(d, tokenId, userId) ==
    [d EXCEPT !.refresh_tokens =
        {IF r.token_id = tokenId /\ r.user_id = userId
         THEN [r EXCEPT !.is_revoked = ~ @] ELSE r : r \in @}]

\* mutant: the logout's revocation forgets the user_id filter
revokeTokenByTokenId_anyOwner(d, tokenId, userId) ==
    [d EXCEPT !.refresh_tokens =
        {IF r.token_id = tokenId
         THEN [r EXCEPT !.is_revoked = TRUE] ELSE r : r \in @}]

\* UPDATE refresh_tokens SET is_revoked = true WHERE token_id AND user_id
revokeTokenByTokenId(d, tokenId, userId) ==
    [d EXCEPT !.refresh_tokens =
        {IF r.token_id = tokenId /\ r.user_id = userId
         THEN [r EXCEPT !.is_revoked = TRUE] ELSE r : r \in @}]

\* mutant: the password change revokes only the user's newest session
revokeTokensOfUser_newestOnly(d, userId) ==
    [d EXCEPT !.refresh_tokens =
        {IF r.user_id = userId /\ \A o \in @ : o.user_id = userId => o.id <= r.id
         THEN [r EXCEPT !.is_revoked = TRUE] ELSE r : r \in @}]

\* UPDATE refresh_tokens SET is_revoked = true WHERE user_id
revokeTokensOfUser(d, userId) ==
    [d EXCEPT !.refresh_tokens =
        {IF r.user_id = userId
         THEN [r EXCEPT !.is_revoked = TRUE] ELSE r : r \in @}]

\* UPDATE refresh_tokens SET is_revoked = true WHERE id AND user_id
revokeSessionOfUser(d, sessionId, userId) ==
    [d EXCEPT !.refresh_tokens =
        {IF r.id = sessionId /\ r.user_id = userId
         THEN [r EXCEPT !.is_revoked = TRUE] ELSE r : r \in @}]

\* mutant: the bulk revocation forgets the user_id filter
revokeOtherTokensOfUser_anyUser(d, userId, currentTokenId) ==
    [d EXCEPT !.refresh_tokens =
        {IF currentTokenId = NULL \/ r.token_id # currentTokenId
         THEN [r EXCEPT !.is_revoked = TRUE] ELSE r : r \in @}]

\* UPDATE refresh_tokens SET is_revoked = true WHERE user_id [AND token_id <> current]
revokeOtherTokensOfUser(d, userId, currentTokenId) ==
    [d EXCEPT !.refresh_tokens =
        {IF r.user_id = userId /\ (currentTokenId = NULL \/ r.token_id # currentTokenId)
         THEN [r EXCEPT !.is_revoked = TRUE] ELSE r : r \in @}]

\* mutant: the deletion leaves the refresh records of the user behind
deleteUser_noCascade(d, id) ==
    [d EXCEPT !.users = {u \in @ : u.id # id}]

\* DELETE FROM users WHERE id: refresh_tokens and danger_zones ON DELETE
\* CASCADE, auth_logs ON DELETE SET NULL
deleteUser(d, id) ==
    [d EXCEPT !.users = {u \in @ : u.id # id},
              !.refresh_tokens = {r \in @ : r.user_id # id},
              !.danger_zones = {z \in @ : z.user_id # id},
              !.auth_logs = [i \in DOMAIN @ |->
                               IF @[i].user_id = id THEN [@[i] EXCEPT !.user_id = NULL]
                               ELSE @[i]]]

\* AuthService.logAuthEvent: INSERT INTO auth_logs, user_id REFERENCES users
\* (nullable); a failed insert is swallowed
logAuthEvent(d, userId, eventType, success, errorMessage, metadata) ==
    IF userId # NULL /\ ~ \E u \in d.users : u.id = userId
    THEN d
    ELSE [d EXCEPT !.auth_logs = Append(@,
            [user_id |-> userId, event_type |-> eventType, success |-> success,
             error_message |-> errorMessage, metadata |-> metadata])]

\* AuthService.storeRefreshToken: decode, digest, insert
storeRefreshToken(d, userId, refreshToken) ==
    insertRefreshToken(d, userId, refreshToken.tokenId, sha256(refreshToken),
                       refreshToken.exp)

--------------------------------------------------------------------------
(* Call frames *)

\* fault names the table whose store calls fail while the call runs ("none": no fault)
NewCall(op, args, pc) ==
    [op |-> op, args |-> args, pc |-> pc, user |-> {}, storedToken |-> {},
     tokens |-> {}, uid |-> NULL, status |-> 0, message |-> "", fault |-> "none",
     data |-> {}]

Faulty(f, table) == [f EXCEPT !.fault = table]

Down(f, table) == f.fault = table

\* a select on a failing table: { data: null, error }
sel(f, table, rows) == IF Down(f, table) THEN {} ELSE rows

\* an update or delete on a failing table changes nothing
upd(f, table, d, written) == IF Down(f, table) THEN d ELSE written

\* the fault table \o ":insert" fails the inserts only: the store goes down
\* after the call's earlier reads and updates went through
InsertDown(f, table) == Down(f, table) \/ f.fault = table \o ":insert"

\* the fault table \o ":delete" fails the deletes only
DeleteDown(f, table) == Down(f, table) \/ f.fault = table \o ":delete"

\* mutant: the failing insert reports its error after the row was written
ins_written(f, table, d, inserted) ==
    IF InsertDown(f, table) THEN [d |-> inserted.d, data |-> {}, error |-> TRUE]
    ELSE inserted

\* an insert on a failing table: { data: null, error }
ins(f, table, d, inserted) ==
    IF InsertDown(f, table) THEN [d |-> d, data |-> {}, error |-> TRUE] ELSE inserted

\* mutant: a failed audit write is thrown back into the handler
afterLog_rethrows(f, next) ==
    IF Down(f, "auth_logs") THEN [f EXCEPT !.pc = "done", !.status = 500,
                                            !.message = "Failed to log auth event"]
    ELSE next

\* await this.logAuthEvent(...): its catch block swallows a failed write
afterLog(f, next) == next

\* AuthService.logAuthEvent as called from a handler
audit(d, f, userId, eventType, success, errorMessage, metadata) ==
    upd(f, "auth_logs", d,
        logAuthEvent(d, userId, eventType, success, errorMessage, metadata))

NoCall == NewCall("none", <<>>, "done")

\* res.status(s).json({ success, message, data: tokens })
Respond(f, status, message) ==
    [f EXCEPT !.pc = "done", !.status = status, !.message = message]

Goto(f, pc) == [f EXCEPT !.pc = pc]

St(d, f) == [d |-> d, f |-> f]

--------------------------------------------------------------------------
(* AuthService.registerUser under AuthController.register *)

registerUser(d, f, t, e) ==
    CASE f.pc = "register:select" ->
           LET existingUser == single(sel(f, "users",
                                   selectUsersOr(d, f.args.username, f.args.email))).data
           IN IF existingUser # {}
              THEN St(d, Respond(f, 400,
                      IF Row(existingUser).username = f.args.username
                      THEN "User with this username already exists"
                      ELSE "User with this email already exists"))
              ELSE St(d, Goto(f, "register:insert"))
      [] f.pc = "register:insert" ->
           LET r == ins(f, "users", d,
                        insertUser(d, f.args.username, f.args.email,
                                   hashPassword(f.args.password), t))
           IN IF r.error
              THEN St(r.d, Respond(f, 400, "Failed to create user"))
              ELSE St(r.d, [f EXCEPT !.pc = "register:log", !.user = r.data])
      [] f.pc = "register:log" ->
           St(audit(d, f, Row(f.user).id, "register", TRUE, "",
                    [username |-> f.args.username, email |-> f.args.email]),
              afterLog(f, Goto(f, "register:store")))
      [] f.pc = "register:store" ->
           LET tokens == generateTokens(Row(f.user), d.seq + 1, t, e)
               r == ins(f, "refresh_tokens", [d EXCEPT !.seq = @ + 1],
                        storeRefreshToken([d EXCEPT !.seq = @ + 1], Row(f.user).id,
                                          tokens.refreshToken))
           IN IF r.error
              THEN St(r.d, Respond(f, 400, "Failed to store refresh token"))
              ELSE St(r.d, [f EXCEPT !.pc = "register:controllerLog", !.tokens = {tokens}])
      [] f.pc = "register:controllerLog" ->
           St(audit(d, f, Row(f.user).id, "register", TRUE, "",
                    [username |-> f.args.username, email |-> f.args.email]),
              afterLog(f, Respond(f, 201, "User registered successfully")))

--------------------------------------------------------------------------
(* AuthService.loginUser under AuthController.login *)

LockedMessage == "Account is temporarily locked due to too many failed attempts"

\* mutant: the lock comparison is inverted
isLocked_inverted(user, t) == user.locked_until # NULL /\ user.locked_until < t

\* user.locked_until && new Date(user.locked_until) > new Date()
isLocked(user, t) == user.locked_until # NULL /\ user.locked_until > t

\* mutant: the threshold is off by one
shouldLock_offByOne(failedAttempts, e) == failedAttempts > maxAttempts(e)

\* failedAttempts >= maxAttempts
shouldLock(failedAttempts, e) == failedAttempts >= maxAttempts(e)

\* mutant: the unknown-identifier failure says so to the client
throwUserNotFound_leaky(f) == Respond(f, 401, "User not found")

\* throw new Error('Invalid credentials') after 'User not found'
throwUserNotFound(f) == Respond(f, 401, "Invalid credentials")

\* mutant: a deactivated account is answered like a wrong password
throwInactive_asInvalid(f) == Respond(f, 401, "Invalid credentials")

\* throw new Error('Account is deactivated')
throwInactive(f) == Respond(f, 401, "Account is deactivated")

\* throw new Error('Invalid credentials') after 'Invalid password'
throwInvalidPassword(f) == Respond(f, 401, "Invalid credentials")

loginUser(d, f, t, e) ==
    CASE f.pc = "login:select" ->
           LET r == single(sel(f, "users",
                               selectUsersOr(d, f.args.identifier, f.args.identifier)))
           IN St(d, [f EXCEPT !.pc = "login:check", !.user = r.data])
      [] f.pc = "login:check" ->
           IF f.user = {}
           THEN St(audit(d, f, NULL, "failed_login", FALSE, "User not found",
                         [identifier |-> f.args.identifier]),
                   afterLog(f, throwUserNotFound(f)))
           ELSE LET user == Row(f.user) IN
                IF isLocked(user, t)
                THEN St(audit(d, f, user.id, "failed_login", FALSE, "Account locked",
                              [identifier |-> f.args.identifier]),
                        afterLog(f, Respond(f, 401, LockedMessage)))
                ELSE IF ~ user.is_active
                THEN St(audit(d, f, user.id, "failed_login", FALSE, "Account inactive",
                              [identifier |-> f.args.identifier]),
                        afterLog(f, throwInactive(f)))
                ELSE IF ~ comparePassword(f.args.password, user.password_hash)
                THEN LET failedAttempts == user.failed_login_attempts + 1
                     IN St(upd(f, "users", d,
                               updateUserFailed(d, user.id, failedAttempts,
                                                shouldLock(failedAttempts, e),
                                                t + lockoutTime(e))),
                           Goto(f, "login:logFailed"))
                ELSE St(upd(f, "users", d, updateUserReset(d, user.id, t)),
                        Goto(f, "login:store"))
      [] f.pc = "login:logFailed" ->
           St(audit(d, f, Row(f.user).id, "failed_login", FALSE, "Invalid password",
                    [identifier |-> f.args.identifier,
                     failedAttempts |-> Row(f.user).failed_login_attempts + 1]),
              afterLog(f, throwInvalidPassword(f)))
      [] f.pc = "login:store" ->
           LET tokens == generateTokens(Row(f.user), d.seq + 1, t, e)
               r == ins(f, "refresh_tokens", [d EXCEPT !.seq = @ + 1],
                        storeRefreshToken([d EXCEPT !.seq = @ + 1], Row(f.user).id,
                                          tokens.refreshToken))
           IN IF r.error
              THEN St(r.d, Respond(f, 401, "Failed to store refresh token"))
              ELSE St(r.d, [f EXCEPT !.pc = "login:log", !.tokens = {tokens}])
      [] f.pc = "login:log" ->
           St(audit(d, f, Row(f.user).id, "login", TRUE, "",
                    [identifier |-> f.args.identifier]),
              afterLog(f, Respond(f, 200, "Login successful")))

--------------------------------------------------------------------------
(* AuthService.refreshAccessToken under AuthController.refreshToken.       *)
(* args.refreshToken is the body field: {} when absent, else {token}.      *)

refreshAccessToken(d, f, t, e) ==
    CASE f.pc = "refresh:select" ->
           IF f.args.refreshToken = {}
           THEN St(d, Respond(f, 400, "Refresh token is required"))
           ELSE LET token == Row(f.args.refreshToken) IN
                IF ~ verifyRefreshToken(token, t, e)
                THEN St(d, Respond(f, 401, "Invalid or expired refresh token"))
                ELSE St(d, [f EXCEPT !.pc = "refresh:user",
                              !.storedToken =
                                  single(sel(f, "refresh_tokens",
                                             selectActiveToken(d, token.tokenId,
                                                               sha256(token)))).data])
      [] f.pc = "refresh:user" ->
           IF f.storedToken = {}
           THEN St(d, Respond(f, 401, "Invalid refresh token"))
           ELSE IF Row(f.storedToken).expires_at < t
           THEN St(d, Respond(f, 401, "Refresh token expired"))
           ELSE St(d, [f EXCEPT !.pc = "refresh:revoke",
                         !.user = single(sel(f, "users", selectUserById(d,
                                      Row(f.args.refreshToken).userId))).data])
      [] f.pc = "refresh:revoke" ->
           IF f.user = {} \/ ~ Row(f.user).is_active
           THEN St(d, Respond(f, 401, "User not found or inactive"))
           ELSE LET tokens == generateTokens(Row(f.user), d.seq + 1, t, e)
                IN St(upd(f, "refresh_tokens", [d EXCEPT !.seq = @ + 1],
                          revokeTokenById([d EXCEPT !.seq = @ + 1],
                                          Row(f.storedToken).id)),
                      [f EXCEPT !.pc = "refresh:store", !.tokens = {tokens}])
      [] f.pc = "refresh:store" ->
           LET r == ins(f, "refresh_tokens", d,
                        storeRefreshToken(d, Row(f.user).id, Row(f.tokens).refreshToken))
           IN IF r.error
              THEN St(r.d, Respond(f, 401, "Failed to store refresh token"))
              ELSE St(r.d, Respond(f, 200, "Token refreshed successfully"))

--------------------------------------------------------------------------
(* Middleware authenticateToken, in front of every protected route.        *)
(* args.accessToken is the bearer token: {} when absent, else {token}.     *)

authenticateToken(d, f, t, e, next) ==
    CASE f.pc = "auth:select" ->
           IF f.args.accessToken = {}
           THEN St(d, Respond(f, 401, "Access token is required"))
           ELSE IF ~ verifyAccessToken(Row(f.args.accessToken), t, e)
           THEN St(d, Respond(f, 401, "Invalid or expired token"))
           ELSE St(d, [f EXCEPT !.pc = "auth:check",
                         !.user = single(sel(f, "users", selectUserById(d,
                                      Row(f.args.accessToken).userId))).data])
      [] f.pc = "auth:check" ->
           IF f.user = {}
           THEN St(d, Respond(f, 401, "Invalid token - user not found"))
           ELSE IF ~ Row(f.user).is_active
           THEN St(d, Respond(f, 401, "Account is deactivated"))
           ELSE St(d, [f EXCEPT !.pc = next, !.uid = Row(f.user).id, !.user = {}])

--------------------------------------------------------------------------
(* AuthService.logoutUser under AuthController.logout *)

logoutUser(d, f, t, e) ==
    CASE f.pc = "logout:revoke" ->
           IF /\ f.args.refreshToken # {}
              /\ jwtDecode(Row(f.args.refreshToken)) # {}
              /\ Row(jwtDecode(Row(f.args.refreshToken))).tokenId # NULL
           THEN St(upd(f, "refresh_tokens", d,
                       revokeTokenByTokenId(d,
                           Row(jwtDecode(Row(f.args.refreshToken))).tokenId, f.uid)),
                   Goto(f, "logout:log"))
           ELSE St(d, Goto(f, "logout:log"))
      [] f.pc = "logout:log" ->
           St(audit(d, f, f.uid, "logout", TRUE, "", <<>>),
              afterLog(f, Respond(f, 200, "Logout successful")))

--------------------------------------------------------------------------
(* UserController.changePassword *)

changePassword(d, f, t, e) ==
    CASE f.pc = "changePassword:select" ->
           St(d, [f EXCEPT !.pc = "changePassword:update",
                    !.user = single(sel(f, "users", selectUserById(d, f.uid))).data])
      [] f.pc = "changePassword:update" ->
           IF f.user = {}
           THEN St(d, Respond(f, 500, "User not found"))
           ELSE IF ~ comparePassword(f.args.currentPassword, Row(f.user).password_hash)
           THEN St(audit(d, f, f.uid, "password_change", FALSE,
                         "Invalid current password", <<>>),
                   afterLog(f, Respond(f, 400, "Current password is incorrect")))
           ELSE IF Down(f, "users")
           THEN St(d, Respond(f, 500, "Failed to update password"))
           ELSE St(updateUserPassword(d, f.uid, hashPassword(f.args.newPassword)),
                   Goto(f, "changePassword:revoke"))
      [] f.pc = "changePassword:revoke" ->
           St(upd(f, "refresh_tokens", d, revokeTokensOfUser(d, f.uid)),
              Goto(f, "changePassword:log"))
      [] f.pc = "changePassword:log" ->
           St(audit(d, f, f.uid, "password_change", TRUE, "", <<>>),
              afterLog(f, Respond(f, 200, "Password changed successfully. Please log in again with your new password.")))

--------------------------------------------------------------------------
(* UserController.deleteAccount.  args.password is "" when the body has none *)

deleteAccount(d, f, t, e) ==
    CASE f.pc = "deleteAccount:select" ->
           IF f.args.password = ""
           THEN St(d, Respond(f, 400, "Password is required to delete account"))
           ELSE St(d, [f EXCEPT !.pc = "deleteAccount:log",
                         !.user = single(sel(f, "users", selectUserById(d, f.uid))).data])
      [] f.pc = "deleteAccount:log" ->
           IF f.user = {}
           THEN St(d, Respond(f, 500, "User not found"))
           ELSE IF ~ comparePassword(f.args.password, Row(f.user).password_hash)
           THEN St(d, Respond(f, 400, "Password is incorrect"))
           ELSE St(audit(d, f, f.uid, "account_deletion", TRUE, "",
                         [username |-> Row(f.user).username, email |-> Row(f.user).email]),
                   afterLog(f, Goto(f, "deleteAccount:delete")))
      [] f.pc = "deleteAccount:delete" ->
           IF DeleteDown(f, "users")
           THEN St(d, Respond(f, 500, "Failed to delete account"))
           ELSE St(deleteUser(d, f.uid), Respond(f, 200, "Account deleted successfully"))

--------------------------------------------------------------------------
(* UserController.revokeSession and revokeAllSessions.                     *)
(* args.currentTokenId is NULL when the body has none.                     *)

revokeSession(d, f, t, e) ==
    CASE f.pc = "revokeSession:update" ->
           IF Down(f, "refresh_tokens")
           THEN St(d, Respond(f, 500, "Failed to revoke session"))
           ELSE St(revokeSessionOfUser(d, f.args.sessionId, f.uid),
                   Respond(f, 200, "Session revoked successfully"))

revokeAllSessions(d, f, t, e) ==
    CASE f.pc = "revokeAllSessions:update" ->
           IF Down(f, "refresh_tokens")
           THEN St(d, Respond(f, 500, "Failed to revoke sessions"))
           ELSE St(revokeOtherTokensOfUser(d, f.uid, f.args.currentTokenId),
                   Respond(f, 200, "All sessions revoked successfully"))

--------------------------------------------------------------------------
(* AuthController.checkAvailability.  args.username / args.email is "" when *)
(* the query string has none.  The row found is kept in f.user.             *)

selectUsersByUsername(d, a) == {u \in d.users : u.username = a}

selectUsersByEmail(d, b) == {u \in d.users : u.email = b}

checkAvailability(d, f, t, e) ==
    CASE f.pc = "checkAvailability:select" ->
           IF f.args.username = "" /\ f.args.email = ""
           THEN St(d, Respond(f, 400, "Username or email parameter is required"))
           ELSE LET rows == IF f.args.username # "" /\ f.args.email # ""
                            THEN selectUsersOr(d, f.args.username, f.args.email)
                            ELSE IF f.args.username # ""
                            THEN selectUsersByUsername(d, f.args.username)
                            ELSE selectUsersByEmail(d, f.args.email)
                IN St(d, Respond([f EXCEPT !.user = single(sel(f, "users", rows)).data],
                                 200, "Availability checked"))

\* data.available of the response: {} for null, {TRUE} or {FALSE} otherwise
availability(f) ==
    [username |-> IF f.args.username = "" THEN {}
                  ELSE {f.user = {} \/ Row(f.user).username # f.args.username},
     email |-> IF f.args.email = "" THEN {}
               ELSE {f.user = {} \/ Row(f.user).email # f.args.email}]

--------------------------------------------------------------------------
(* DangerZoneController.  A coordinate, the radius and a filter of the     *)
(* request are {} when absent and {x} when present; coordinates are in     *)
(* hundredths of a degree, distances in metres.                            *)

Abs(x) == IF x < 0 THEN -x ELSE x

\* R * (pi / 180) for R = 6371 km, per hundredth of a degree, in millimetres
MillimetresPerUnit == 1111949

\* the haversine distance.  All points of the model lie on one meridian
\* (lon1 = lon2), where a = sin^2(dLat / 2), c = |dLat| and d = R * |dLat|
calculateDistance(lat1, lon1, lat2, lon2) ==
    (Abs(lat2 - lat1) * MillimetresPerUnit) \div 1000

validSeverityLevels == {"low", "medium", "high", "critical"}

\* a JavaScript value that is falsy: absent, or the number 0
Falsy(x) == x = {} \/ x = {0}

\* INSERT INTO danger_zones with the column defaults of the table
insertDangerZone(d, userId, latitude, longitude, severity, t) ==
    [d EXCEPT !.seq = @ + 1,
              !.danger_zones = @ \cup
                  {[id |-> d.seq + 1, user_id |-> userId, latitude |-> latitude,
                    longitude |-> longitude, severity_level |-> severity,
                    is_verified |-> FALSE, verification_count |-> 0, created_at |-> t]}]

\* the select of getDangerZones: users!inner, the optional filters and the
\* default range(0, 99), which keeps every row of a table below 100 rows
selectDangerZones(d, severity, verifiedOnly) ==
    {z \in d.danger_zones :
        /\ \E u \in d.users : u.id = z.user_id
        /\ severity # {} => z.severity_level \in severity
        /\ verifiedOnly => z.is_verified}

createDangerZone(d, f, t, e) ==
    CASE f.pc = "createDangerZone:insert" ->
           IF Falsy(f.args.latitude) \/ Falsy(f.args.longitude)
           THEN St(d, Respond(f, 400,
                      "Latitude, longitude, title, and description are required"))
           ELSE IF f.args.severity_level # {}
                   /\ ~ (f.args.severity_level \subseteq validSeverityLevels)
           THEN St(d, Respond(f, 400,
                      "Invalid severity level. Must be one of: low, medium, high, critical"))
           ELSE IF Down(f, "danger_zones")
           THEN St(d, Respond(f, 500, "Failed to create danger zone"))
           ELSE LET d2 == insertDangerZone(d, f.uid, Row(f.args.latitude),
                              Row(f.args.longitude),
                              IF f.args.severity_level = {} THEN "medium"
                              ELSE Row(f.args.severity_level), t)
                IN St(d2, Respond([f EXCEPT !.data = d2.danger_zones \ d.danger_zones],
                                  201, "Danger zone created successfully"))

\* const radiusKm is declared inside the block of if (latitude && longitude);
\* the response reads radiusKm outside that block whenever both coordinates
\* are given, which throws a ReferenceError that the catch turns into a 500
getDangerZones(d, f, t, e) ==
    CASE f.pc = "getDangerZones:select" ->
           IF Down(f, "danger_zones")
           THEN St(d, Respond(f, 500, "Failed to fetch danger zones"))
           ELSE LET dangerZones == selectDangerZones(d, f.args.severity_level,
                                                     f.args.verified_only)
                    radiusM == IF f.args.radius = {} THEN DefaultRadius * 1000
                               ELSE Row(f.args.radius) * 1000
                    filteredZones ==
                        IF f.args.latitude # {} /\ f.args.longitude # {}
                        THEN {z \in dangerZones :
                                 calculateDistance(Row(f.args.latitude),
                                                   Row(f.args.longitude),
                                                   z.latitude, z.longitude) <= radiusM}
                        ELSE dangerZones
                IN IF f.args.latitude # {} /\ f.args.longitude # {}
                   THEN St(d, Respond(f, 500, "radiusKm is not defined"))
                   ELSE St(d, Respond([f EXCEPT !.data = filteredZones], 200,
                                      "Danger zones retrieved successfully"))

--------------------------------------------------------------------------
(* Dispatch and run-to-completion *)

\* the route's handler, entered once the middleware has called next()
Entry(op) ==
    CASE op = "logout" -> "logout:revoke"
      [] op = "changePassword" -> "changePassword:select"
      [] op = "deleteAccount" -> "deleteAccount:select"
      [] op = "revokeSession" -> "revokeSession:update"
      [] op = "revokeAllSessions" -> "revokeAllSessions:update"
      [] op = "createDangerZone" -> "createDangerZone:insert"
      [] op = "getDangerZones" -> "getDangerZones:select"

Step(d, f, t, e) ==
    IF f.pc \in {"auth:select", "auth:check"}
    THEN authenticateToken(d, f, t, e, Entry(f.op))
    ELSE CASE f.op = "register" -> registerUser(d, f, t, e)
           [] f.op = "login" -> loginUser(d, f, t, e)
           [] f.op = "refresh" -> refreshAccessToken(d, f, t, e)
           [] f.op = "logout" -> logoutUser(d, f, t, e)
           [] f.op = "changePassword" -> changePassword(d, f, t, e)
           [] f.op = "deleteAccount" -> deleteAccount(d, f, t, e)
           [] f.op = "revokeSession" -> revokeSession(d, f, t, e)
           [] f.op = "revokeAllSessions" -> revokeAllSessions(d, f, t, e)
           [] f.op = "checkAvailability" -> checkAvailability(d, f, t, e)
           [] f.op = "createDangerZone" -> createDangerZone(d, f, t, e)
           [] f.op = "getDangerZones" -> getDangerZones(d, f, t, e)

RECURSIVE Run(_, _, _, _)
Run(d, f, t, e) ==
    IF f.pc = "done" THEN St(d, f)
    ELSE LET s == Step(d, f, t, e) IN Run(s.d, s.f, t, e)

DB == [users |-> users, refresh_tokens |-> refresh_tokens,
       auth_logs |-> auth_logs, danger_zones |-> danger_zones, seq |-> seq]

\* the tokens a 2xx response carries to the client
Delivered(f) ==
    IF f.pc = "done" /\ f.status \in {200, 201}
    THEN UNION {{k.accessToken, k.refreshToken} : k \in f.tokens}
    ELSE {}

\* the server has run a call to state s and sent its response
Reply(p, s) ==
    /\ users' = s.d.users
    /\ refresh_tokens' = s.d.refresh_tokens
    /\ auth_logs' = s.d.auth_logs
    /\ danger_zones' = s.d.danger_zones
    /\ seq' = s.d.seq
    /\ calls' = [calls EXCEPT ![p] = s.f]
    /\ issued' = issued \cup Delivered(s.f)
    /\ UNCHANGED <<now, env>>

Commit(p, s) == Reply(p, s) /\ UNCHANGED client

\* identifiers left to draw from the uuid generators
Quota == seq < MaxSeq

\* room left for n audit rows
Room(n) == Len(auth_logs) < n

\* room left under the bounds: n audit rows, MaxTokens refresh tokens handed out
Budget(n) ==
    /\ Len(auth_logs) < n
    /\ Cardinality({k \in issued : k.type = "refresh"}) < MaxTokens
    /\ \A u \in users : u.failed_login_attempts < MaxFailed

--------------------------------------------------------------------------
(* Sequential operations: one whole request per action, on connection 1 *)

Register(username, email, password) ==
    /\ Commit(1, Run(DB, NewCall("register",
                     [username |-> username, email |-> email, password |-> password],
                     "register:select"), now, env))

Login(identifier, password) ==
    /\ Commit(1, Run(DB, NewCall("login",
                     [identifier |-> identifier, password |-> password],
                     "login:select"), now, env))

Refresh(refreshToken) ==
    /\ Commit(1, Run(DB, NewCall("refresh", [refreshToken |-> refreshToken],
                     "refresh:select"), now, env))

Logout(accessToken, refreshToken) ==
    /\ Commit(1, Run(DB, NewCall("logout",
                     [accessToken |-> accessToken, refreshToken |-> refreshToken],
                     "auth:select"), now, env))

ChangePassword(accessToken, currentPassword, newPassword) ==
    /\ Commit(1, Run(DB, NewCall("changePassword",
                     [accessToken |-> accessToken, currentPassword |-> currentPassword,
                      newPassword |-> newPassword],
                     "auth:select"), now, env))

DeleteAccount(accessToken, password) ==
    /\ Commit(1, Run(DB, NewCall("deleteAccount",
                     [accessToken |-> accessToken, password |-> password],
                     "auth:select"), now, env))

RevokeSession(accessToken, sessionId) ==
    /\ Commit(1, Run(DB, NewCall("revokeSession",
                     [accessToken |-> accessToken, sessionId |-> sessionId],
                     "auth:select"), now, env))

RevokeAllSessions(accessToken, currentTokenId) ==
    /\ Commit(1, Run(DB, NewCall("revokeAllSessions",
                     [accessToken |-> accessToken, currentTokenId |-> currentTokenId],
                     "auth:select"), now, env))

CheckAvailability(username, email) ==
    /\ Commit(1, Run(DB, NewCall("checkAvailability",
                     [username |-> username, email |-> email],
                     "checkAvailability:select"), now, env))

CreateDangerZone(accessToken, latitude, longitude, severity_level) ==
    /\ Commit(1, Run(DB, NewCall("createDangerZone",
                     [accessToken |-> accessToken, latitude |-> latitude,
                      longitude |-> longitude, severity_level |-> severity_level],
                     "auth:select"), now, env))

GetDangerZones(accessToken, latitude, longitude, radius, severity_level, verified_only) ==
    /\ Commit(1, Run(DB, NewCall("getDangerZones",
                     [accessToken |-> accessToken, latitude |-> latitude,
                      longitude |-> longitude, radius |-> radius,
                      severity_level |-> severity_level, verified_only |-> verified_only],
                     "auth:select"), now, env))

\* a whole request served while the store calls on one table fail
Serve(f, fault) == Commit(1, Run(DB, Faulty(f, fault), now, env))

(* Interleaved operation: a request arrives on a free connection, and a   *)
(* call in progress takes its next step                                    *)

Begin(p, f) ==
    /\ calls[p].pc = "done"
    /\ calls' = [calls EXCEPT ![p] = f]
    /\ UNCHANGED <<users, refresh_tokens, auth_logs, danger_zones, seq, now, env, issued,
                   client>>

Proceed(p) ==
    /\ calls[p].pc # "done"
    /\ Commit(p, Step(DB, calls[p], now, env))

Tick ==
    /\ now < MaxTime
    /\ now' = now + 1
    /\ UNCHANGED <<users, refresh_tokens, auth_logs, danger_zones, seq, env, issued, calls,
                   client>>

\* users.is_active BOOLEAN DEFAULT true: no route writes the column; an
\* operator of the database sets it to false to deactivate an account
Deactivate(id) ==
    /\ \E u \in users : u.id = id /\ u.is_active
    /\ users' = {IF u.id = id THEN [u EXCEPT !.is_active = FALSE] ELSE u : u \in users}
    /\ UNCHANGED <<refresh_tokens, auth_logs, danger_zones, seq, now, env, issued, calls,
                   client>>

--------------------------------------------------------------------------
(* The example client (React Native AuthService).  A token field is {} for *)
(* null and {k} for the string k.  A task is one authenticatedRequest call; *)
(* its pc is the await it is suspended at.                                 *)

Tasks == 1..NTasks

NoTask ==
    [pc |-> "idle", bearer |-> {}, sent |-> {}, status |-> 0, tokens |-> {},
     unauthorized |-> FALSE, refreshed |-> "none", result |-> "none"]

\* constructor(): no tokens; AsyncStorage starts empty
NoClient ==
    [accessToken |-> {}, refreshToken |-> {},
     storage |-> [accessToken |-> {}, refreshToken |-> {}],
     tasks |-> [i \in Tasks |-> NoTask]]

\* storeTokens, up to its first await: the fields of the service are set
storeTokens(c, pair) ==
    [c EXCEPT !.accessToken = {pair.accessToken}, !.refreshToken = {pair.refreshToken}]

\* clearTokens, up to its first await
clearTokens(c) == [c EXCEPT !.accessToken = {}, !.refreshToken = {}]

\* AsyncStorage.setItem(key, value) / removeItem(key) has completed
setItem(c, key, value) == [c EXCEPT !.storage[key] = value]

removeItem(c, key) == [c EXCEPT !.storage[key] = {}]

--------------------------------------------------------------------------
(* Start-up: an empty database and a configuration that passes the         *)
(* start-up check (both secrets set)                                       *)

Env(attempts) ==
    [MAX_LOGIN_ATTEMPTS |-> attempts, LOCKOUT_TIME |-> LockoutCfg,
     JWT_SECRET |-> "access-secret", JWT_REFRESH_SECRET |-> "refresh-secret",
     JWT_EXPIRES_IN |-> AccessTtlCfg, JWT_REFRESH_EXPIRES_IN |-> RefreshTtlCfg]

InitDb ==
    /\ users = {}
    /\ refresh_tokens = {}
    /\ auth_logs = <<>>
    /\ danger_zones = {}
    /\ seq = 0
    /\ now = 1
    /\ issued = {}
    /\ calls = [p \in Procs |-> NoCall]
    /\ client = NoClient

(* Lockout: one account, logins with right and wrong passwords, the clock *)

LockInit == InitDb /\ env \in {Env(0), Env(2)}

LockNext ==
    \/ Budget(MaxLogs) /\ Register("alice", "alice@x.com", "Str0ng!Pw")
    \/ Budget(MaxLogs) /\ \E i \in {"alice", "bob"}, pw \in Passwords : Login(i, pw)
    \/ Tick

LockSpec == LockInit /\ [][LockNext]_vars

(* Deactivation: one account, failed and successful logins, then the      *)
(* account is deactivated and logins go on                                *)

InactiveInit == InitDb /\ env \in {Env(0), Env(2)}

InactiveNext ==
    \/ Budget(AccountLogs) /\ Register("alice", "alice@x.com", "Str0ng!Pw")
    \/ Budget(AccountLogs) /\ \E i \in {"alice", "alice@x.com"}, pw \in Passwords : Login(i, pw)
    \/ \E u \in users : Deactivate(u.id)
    \/ Tick

InactiveSpec == InactiveInit /\ [][InactiveNext]_vars

Presented(type) == {{}} \cup {{k} : k \in {x \in issued : x.type = type}}

(* Sessions: two accounts; tokens are issued, rotated and revoked *)

SessionAccounts ==
    {<<"alice", "alice@x.com", "Str0ng!Pw">>, <<"bob", "bob@x.com", "0ther!Pw">>}

SessionInit == InitDb /\ env = Env(0)

SessionNext ==
    \/ Budget(SessionLogs) /\ \E r \in SessionAccounts : Register(r[1], r[2], r[3])
    \/ Budget(SessionLogs) /\ \E pw \in Passwords : Login("alice@x.com", pw)
    \/ Budget(SessionLogs) /\ \E k \in Presented("refresh") : Refresh(k)
    \/ Budget(SessionLogs) /\ \E a \in Presented("access"), k \in Presented("refresh") :
           Logout(a, k)
    \/ Budget(SessionLogs) /\ \E a \in Presented("access"), pw1, pw2 \in Passwords :
           ChangePassword(a, pw1, pw2)
    \/ Tick

SessionSpec == SessionInit /\ [][SessionNext]_vars

\* a string that is no JWT
Garbage ==
    jwtSign([type |-> "malformed", userId |-> NULL, username |-> "", email |-> "",
             tokenId |-> NULL, iat |-> 0, exp |-> 0, iss |-> "", aud |-> ""], "")

(* Rotation: two accounts whose refresh tokens live as long as the access  *)
(* tokens; tokens are rotated, run out, and an account is deactivated      *)

ShortEnv == [Env(0) EXCEPT !.JWT_REFRESH_EXPIRES_IN = AccessTtlCfg]

RotateInit == InitDb /\ env \in {Env(0), ShortEnv}

RotateNext ==
    \/ Budget(AccountLogs) /\ \E r \in SessionAccounts : Register(r[1], r[2], r[3])
    \/ Budget(AccountLogs) /\ \E k \in Presented("refresh") : Refresh(k)
    \/ Refresh({Garbage})
    \/ \E u \in users : Deactivate(u.id)
    \/ Tick

RotateSpec == RotateInit /\ [][RotateNext]_vars

(* Accounts: two accounts that log out, change their password, revoke      *)
(* their sessions and delete themselves                                    *)

AccountInit == InitDb /\ env = Env(0)

AccountNext ==
    \/ Budget(AccountLogs) /\ \E r \in SessionAccounts : Register(r[1], r[2], r[3])
    \/ Budget(AccountLogs) /\ \E pw \in Passwords : Login("alice", pw)
    \/ Budget(AccountLogs) /\ \E k \in Presented("refresh") : Refresh(k)
    \/ Room(AccountLogs) /\ \E a \in Presented("access"), k \in Presented("refresh") :
           Logout(a, k)
    \/ Room(AccountLogs) /\ \E a \in Presented("access"), pw \in Passwords :
           ChangePassword(a, pw, "Str0ng!Pw")
    \/ Room(AccountLogs) /\ \E a \in Presented("access"), pw \in Passwords \cup {""} :
           DeleteAccount(a, pw)

AccountSpec == AccountInit /\ [][AccountNext]_vars

(* Logout: any value may be presented as the refresh token *)

LogoutInit == InitDb /\ env = Env(0)

LogoutNext ==
    \/ Budget(AccountLogs) /\ \E r \in SessionAccounts : Register(r[1], r[2], r[3])
    \/ Budget(AccountLogs) /\ \E k \in Presented("refresh") : Refresh(k)
    \/ Room(AccountLogs) /\ \E a \in Presented("access"),
                                k \in Presented("refresh") \cup {{Garbage}} : Logout(a, k)

LogoutSpec == LogoutInit /\ [][LogoutNext]_vars

(* Session management: the sessions of two accounts are revoked one by one *)
(* or in bulk                                                              *)

RevokeInit == InitDb /\ env = Env(0)

RevokeNext ==
    \/ Budget(AccountLogs) /\ \E r \in SessionAccounts : Register(r[1], r[2], r[3])
    \/ Budget(AccountLogs) /\ Login("alice", "Str0ng!Pw")
    \/ \E a \in Presented("access"), sid \in {r.id : r \in refresh_tokens} :
           RevokeSession(a, sid)
    \/ \E a \in Presented("access"),
          cur \in {NULL} \cup {r.token_id : r \in refresh_tokens} :
           RevokeAllSessions(a, cur)

RevokeSpec == RevokeInit /\ [][RevokeNext]_vars

(* Faults: one account; while a request is served, the store calls on one *)
(* table may all fail                                                      *)

FaultInit == InitDb /\ env = Env(0)

FaultyRegister(x) ==
    Serve(NewCall("register", [username |-> "alice", email |-> "alice@x.com",
                               password |-> "Str0ng!Pw"], "register:select"), x)

FaultyLogin(pw, x) ==
    Serve(NewCall("login", [identifier |-> "alice", password |-> pw], "login:select"), x)

FaultyRefresh(k, x) ==
    Serve(NewCall("refresh", [refreshToken |-> k], "refresh:select"), x)

(* the audit table fails *)
AuditFaultNext ==
    \/ Quota /\ Budget(FaultLogs) /\ \E x \in {"none", "auth_logs"} : FaultyRegister(x)
    \/ Quota /\ Budget(FaultLogs) /\ \E x \in {"none", "auth_logs"}, pw \in Passwords :
           FaultyLogin(pw, x)
    \/ Quota /\ Budget(FaultLogs) /\ \E k \in Presented("refresh") :
           FaultyRefresh(k, "auth_logs")
    \/ Quota /\ Room(FaultLogs) /\ \E a \in Presented("access"), k \in Presented("refresh") :
           Serve(NewCall("logout", [accessToken |-> a, refreshToken |-> k],
                         "auth:select"), "auth_logs")
    \/ Quota /\ Room(FaultLogs) /\ \E a \in Presented("access"), pw \in Passwords :
           Serve(NewCall("changePassword",
                         [accessToken |-> a, currentPassword |-> pw,
                          newPassword |-> "Str0ng!Pw"], "auth:select"), "auth_logs")
    \/ Quota /\ Room(FaultLogs) /\ \E a \in Presented("access"), pw \in Passwords :
           Serve(NewCall("deleteAccount", [accessToken |-> a, password |-> pw],
                         "auth:select"), "auth_logs")

AuditFaultSpec == FaultInit /\ [][AuditFaultNext]_vars

(* the users table or the refresh_tokens table fails *)
StoreFaults == {"none", "users", "refresh_tokens"}

StoreFaultNext ==
    \/ Quota /\ Budget(FaultLogs) /\ \E x \in StoreFaults : FaultyRegister(x)
    \/ Quota /\ Budget(FaultLogs) /\ \E x \in StoreFaults, pw \in Passwords :
           FaultyLogin(pw, x)
    \/ Quota /\ Budget(FaultLogs) /\ \E x \in StoreFaults, k \in Presented("refresh") :
           FaultyRefresh(k, x)

StoreFaultSpec == FaultInit /\ [][StoreFaultNext]_vars

(* Tokens: any configuration that passes the start-up check; clients       *)
(* present issued tokens of either class, and altered ones, to a protected *)
(* route and to refresh                                                    *)

Secrets == {"access-secret", "refresh-secret"}

\* if (!JWT_SECRET || !JWT_REFRESH_SECRET) throw
StartupCheck(e) == e.JWT_SECRET # "" /\ e.JWT_REFRESH_SECRET # ""

\* a token string altered in one place: a claim in the payload segment, the
\* signature segment, or the structure of the string
Tampered(token) ==
    {[token EXCEPT !.userId = id] : id \in {u.id : u \in users} \ {token.userId}}
    \cup {[token EXCEPT !.exp = @ + 1], [token EXCEPT !.sig.secret = "forged"], Garbage}

TokenInit ==
    /\ InitDb
    /\ env \in {[Env(0) EXCEPT !.JWT_SECRET = a, !.JWT_REFRESH_SECRET = r] :
                   a \in Secrets \cup {""}, r \in Secrets \cup {""}}
    /\ StartupCheck(env)

TokenNext ==
    \/ Budget(SessionLogs) /\ \E r \in SessionAccounts : Register(r[1], r[2], r[3])
    \/ Room(SessionLogs) /\ \E k \in issued : Logout({k}, {})
    \/ \E k \in issued : \E x \in Tampered(k) : Logout({x}, {})
    \/ Budget(SessionLogs) /\ \E k \in issued : Refresh({k})
    \/ Tick

TokenSpec == TokenInit /\ [][TokenNext]_vars

(* Registration: every pairing of two usernames with two emails *)

RegInit == InitDb /\ env = Env(0)

RegNext ==
    \/ Budget(MaxLogs) /\ \E n \in Usernames, m \in Emails, pw \in Passwords :
           Register(n, m, pw)
    \/ Tick

RegSpec == RegInit /\ [][RegNext]_vars

(* Concurrent refreshes: the calls of several connections interleave at    *)
(* their store calls                                                       *)

ConcInit == InitDb /\ env = Env(0)

ConcNext ==
    \/ \E p \in Procs : Budget(MaxLogs) /\
           Begin(p, NewCall("register",
                    [username |-> "alice", email |-> "alice@x.com",
                     password |-> "Str0ng!Pw"], "register:select"))
    \/ \E p \in Procs, k \in Presented("refresh") : Budget(MaxLogs) /\
           Begin(p, NewCall("refresh", [refreshToken |-> k], "refresh:select"))
    \/ \E p \in Procs : Proceed(p)

ConcSpec == ConcInit /\ [][ConcNext]_vars

(* Interrupted rotation: refresh calls take their store calls one at a    *)
(* time, may stop before the next one, and the insert of the new record   *)
(* may fail                                                               *)

StrandInit == InitDb /\ env = Env(0)

StrandNext ==
    \/ Budget(FaultLogs) /\
           Begin(1, NewCall("register",
                    [username |-> "alice", email |-> "alice@x.com",
                     password |-> "Str0ng!Pw"], "register:select"))
    \/ Budget(FaultLogs) /\
           Begin(1, NewCall("login", [identifier |-> "alice", password |-> "Str0ng!Pw"],
                            "login:select"))
    \/ \E p \in Procs, k \in Presented("refresh"),
          x \in {"none", "refresh_tokens:insert"} : Quota /\ Budget(AccountLogs) /\
           Begin(p, Faulty(NewCall("refresh", [refreshToken |-> k], "refresh:select"), x))
    \/ \E p \in Procs : Proceed(p)

StrandSpec == StrandInit /\ [][StrandNext]_vars

(* Concurrent logins: the login calls of several connections on one       *)
(* account interleave at their store calls                                 *)

RaceInit == InitDb /\ env = Env(2)

RaceNext ==
    \/ Budget(FaultLogs) /\
           Begin(1, NewCall("register",
                    [username |-> "alice", email |-> "alice@x.com",
                     password |-> "Str0ng!Pw"], "register:select"))
    \/ \E p \in Procs, pw \in Passwords : Budget(FaultLogs) /\
           Begin(p, NewCall("login", [identifier |-> "alice", password |-> pw],
                            "login:select"))
    \/ \E p \in Procs : Proceed(p)

RaceSpec == RaceInit /\ [][RaceNext]_vars

(* Ledgers: every operation that writes refresh_tokens or auth_logs, on    *)
(* two accounts                                                            *)

LedgerInit == InitDb /\ env = Env(0)

LedgerNext ==
    \/ Budget(SessionLogs) /\ \E r \in SessionAccounts : Register(r[1], r[2], r[3])
    \/ Budget(SessionLogs) /\ Login("alice", "Str0ng!Pw")
    \/ Budget(SessionLogs) /\ \E k \in Presented("refresh") : Refresh(k)
    \/ Room(SessionLogs) /\ \E a \in Presented("access"), k \in Presented("refresh") :
           Logout(a, k)
    \/ Room(SessionLogs) /\ \E a \in Presented("access") :
           ChangePassword(a, "Str0ng!Pw", "Str0ng!Pw")
    \/ Room(SessionLogs) /\ \E a \in Presented("access") :
           DeleteAccount(a, "Str0ng!Pw")
    \/ \E a \in Presented("access"), sid \in {r.id : r \in refresh_tokens} :
           RevokeSession(a, sid)
    \/ \E a \in Presented("access"),
          cur \in {NULL} \cup {r.token_id : r \in refresh_tokens} :
           RevokeAllSessions(a, cur)

LedgerSpec == LedgerInit /\ [][LedgerNext]_vars

(* Concurrent registrations: the register calls of several connections   *)
(* interleave at their store calls                                        *)

RegRaceInit == InitDb /\ env = Env(0)

RegRaceNext ==
    \/ \E p \in Procs, n \in Usernames, m \in Emails : Quota /\ Budget(SessionLogs) /\
           Begin(p, NewCall("register",
                    [username |-> n, email |-> m, password |-> "Str0ng!Pw"],
                    "register:select"))
    \/ \E p \in Procs : Proceed(p)

RegRaceSpec == RegRaceInit /\ [][RegRaceNext]_vars

(* Concurrent failures: wrong-password logins of several connections on  *)
(* one account with maxLoginAttempts = 2                                  *)

LockRaceInit == InitDb /\ env = Env(2)

LockRaceNext ==
    \/ Budget(SessionLogs) /\
           Begin(1, NewCall("register",
                    [username |-> "alice", email |-> "alice@x.com",
                     password |-> "Str0ng!Pw"], "register:select"))
    \/ \E p \in Procs : Budget(SessionLogs) /\
           Begin(p, NewCall("login", [identifier |-> "alice", password |-> "0ther!Pw"],
                            "login:select"))
    \/ \E p \in Procs : Proceed(p)

LockRaceSpec == LockRaceInit /\ [][LockRaceNext]_vars

(* Concurrent password change: one account whose password is changed to  *)
(* a new one while logins with the old password and refreshes are in      *)
(* progress; the new password is never used to log in                     *)

PwRaceInit == InitDb /\ env = Env(0)

PwRaceNext ==
    \/ Budget(SessionLogs) /\
           Begin(1, NewCall("register",
                    [username |-> "alice", email |-> "alice@x.com",
                     password |-> "Str0ng!Pw"], "register:select"))
    \/ \E p \in Procs : Budget(SessionLogs) /\
           Begin(p, NewCall("login", [identifier |-> "alice", password |-> "Str0ng!Pw"],
                            "login:select"))
    \/ \E p \in Procs, k \in Presented("refresh") : Quota /\ Budget(SessionLogs) /\
           Begin(p, NewCall("refresh", [refreshToken |-> k], "refresh:select"))
    \/ \E p \in Procs, a \in Presented("access") : Room(SessionLogs) /\
           Begin(p, NewCall("changePassword",
                    [accessToken |-> a, currentPassword |-> "Str0ng!Pw",
                     newPassword |-> "0ther!Pw"], "auth:select"))
    \/ \E p \in Procs : Proceed(p)

PwRaceSpec == PwRaceInit /\ [][PwRaceNext]_vars

(* Failing deletion: two accounts are deleted while the delete on the     *)
(* users table may fail                                                   *)

DeleteFaultInit == InitDb /\ env = Env(0)

DeleteFaultNext ==
    \/ Quota /\ Budget(AccountLogs) /\ \E r \in SessionAccounts : Register(r[1], r[2], r[3])
    \/ Room(AccountLogs) /\ \E a \in Presented("access"), pw \in Passwords \cup {""},
                                x \in {"none", "users:delete"} :
           Serve(NewCall("deleteAccount", [accessToken |-> a, password |-> pw],
                         "auth:select"), x)

DeleteFaultSpec == DeleteFaultInit /\ [][DeleteFaultNext]_vars

(* Protected routes: any issued token, a string that is no JWT, or no     *)
(* token at all is the bearer of a protected request, while sessions are  *)
(* revoked, accounts deactivated and tokens run out                       *)

Bearers == {{}, {Garbage}} \cup {{k} : k \in issued}

GuardInit == InitDb /\ env = Env(0)

GuardNext ==
    \/ Budget(SessionLogs) /\ \E r \in SessionAccounts : Register(r[1], r[2], r[3])
    \/ Room(SessionLogs) /\ \E a \in Bearers, k \in Presented("refresh") : Logout(a, k)
    \/ Room(SessionLogs) /\ \E a \in Bearers : ChangePassword(a, "Str0ng!Pw", "Str0ng!Pw")
    \/ \E a \in Bearers : RevokeAllSessions(a, NULL)
    \/ \E u \in users : Deactivate(u.id)
    \/ Tick

GuardSpec == GuardInit /\ [][GuardNext]_vars

(* The client: one account signs up; authenticatedRequest calls run       *)
(* concurrently, each suspended at its awaits, while the access token     *)
(* runs out                                                               *)

\* the task's fields after a step
Task(c, i, f) == [c EXCEPT !.tasks[i] = f]

\* AuthService.register: the request is served, and on success the tokens
\* of the response are stored
ClientRegister ==
    /\ users = {}
    /\ \A i \in Tasks : client.tasks[i].pc = "idle"
    /\ LET s == Run(DB, NewCall("register",
                        [username |-> "alice", email |-> "alice@x.com",
                         password |-> "Str0ng!Pw"], "register:select"), now, env)
       IN /\ Reply(1, s)
          /\ client' = IF s.f.status = 201
                       THEN LET k == Row(s.f.tokens)
                            IN setItem(setItem(storeTokens(client, k),
                                               "accessToken", {k.accessToken}),
                                       "refreshToken", {k.refreshToken})
                       ELSE client

\* authenticatedRequest is called: without an access token it throws, with
\* one it sends the request and awaits the response
authenticatedRequest(i) ==
    /\ client.tasks[i].pc = "idle"
    /\ client' = IF client.accessToken = {}
                 THEN Task(client, i, [client.tasks[i] EXCEPT !.pc = "done",
                                                              !.result = "failed"])
                 ELSE Task(client, i, [client.tasks[i] EXCEPT !.pc = "fetch",
                                                              !.bearer = client.accessToken])
    /\ UNCHANGED <<users, refresh_tokens, auth_logs, danger_zones, seq, now, env, issued,
                    calls>>

\* the server serves the request a task has in flight: a protected route
\* (DELETE /user/sessions/:sessionId with an unknown id) or POST /auth/refresh-token
Fetch(i) ==
    LET T == client.tasks[i]
    IN /\ T.pc \in {"fetch", "refresh", "retry"}
       /\ LET s == IF T.pc = "refresh"
                   THEN Run(DB, NewCall("refresh", [refreshToken |-> T.sent],
                                        "refresh:select"), now, env)
                   ELSE Run(DB, NewCall("revokeSession",
                                        [accessToken |-> T.bearer, sessionId |-> NULL],
                                        "auth:select"), now, env)
          IN /\ Reply(1, s)
             /\ client' =
                  CASE T.pc = "fetch" ->
                         Task(client, i, [T EXCEPT !.pc = "fetched", !.status = s.f.status])
                    [] T.pc = "refresh" ->
                         Task(client, i, [T EXCEPT !.pc = "refreshed", !.status = s.f.status,
                                                   !.tokens = s.f.tokens])
                    [] T.pc = "retry" ->
                         Task(client, i, [T EXCEPT !.pc = "done", !.status = s.f.status,
                                                   !.result = "response"])

\* a task resumes after an await and runs to its next await
Resume(i) ==
    LET T == client.tasks[i]
    IN /\ T.pc \in {"fetched", "refreshed", "store:access", "store:refresh",
                    "clear:access", "clear:refresh"}
       /\ client' =
            CASE T.pc = "fetched" ->
                   IF T.status # 401
                   THEN Task(client, i, [T EXCEPT !.pc = "done", !.result = "response"])
                   ELSE IF client.refreshToken = {}
                   THEN Task(clearTokens(client), i,
                             [T EXCEPT !.pc = "clear:access", !.unauthorized = TRUE,
                                       !.refreshed = "failed"])
                   ELSE Task(client, i,
                             [T EXCEPT !.pc = "refresh", !.unauthorized = TRUE,
                                       !.sent = client.refreshToken])
              [] T.pc = "refreshed" ->
                   IF T.status = 200
                   THEN Task(storeTokens(client, Row(T.tokens)), i,
                             [T EXCEPT !.pc = "store:access", !.refreshed = "ok"])
                   ELSE Task(clearTokens(client), i,
                             [T EXCEPT !.pc = "clear:access", !.refreshed = "failed"])
              [] T.pc = "store:access" ->
                   Task(setItem(client, "accessToken", {Row(T.tokens).accessToken}), i,
                        [T EXCEPT !.pc = "store:refresh"])
              [] T.pc = "store:refresh" ->
                   Task(setItem(client, "refreshToken", {Row(T.tokens).refreshToken}), i,
                        [T EXCEPT !.pc = "retry", !.bearer = client.accessToken])
              [] T.pc = "clear:access" ->
                   Task(removeItem(client, "accessToken"), i,
                        [T EXCEPT !.pc = "clear:refresh"])
              [] T.pc = "clear:refresh" ->
                   Task(removeItem(client, "refreshToken"), i,
                        [T EXCEPT !.pc = "done", !.result = "failed"])
       /\ UNCHANGED <<users, refresh_tokens, auth_logs, danger_zones, seq, now, env, issued,
                    calls>>

ClientInit == InitDb /\ env = Env(0)

ClientNext ==
    \/ ClientRegister
    \/ \E i \in Tasks : authenticatedRequest(i)
    \/ \E i \in Tasks : Fetch(i)
    \/ \E i \in Tasks : Resume(i)
    \/ Tick

ClientSpec == ClientInit /\ [][ClientNext]_vars

--------------------------------------------------------------------------
(* Availability: accounts with every pairing of two usernames and two     *)
(* emails are registered, and availability is asked for every combination *)
(* of parameters                                                           *)

AvailInit == InitDb /\ env = Env(0)

AvailNext ==
    \/ Budget(SessionLogs) /\ \E n \in Usernames, m \in Emails, pw \in Passwords :
           Register(n, m, pw)
    \/ \E n \in Usernames \cup {""}, m \in Emails \cup {""} : CheckAvailability(n, m)

AvailSpec == AvailInit /\ [][AvailNext]_vars

(* Danger zones: one account reports zones along a meridian and asks for   *)
(* the zones around a point, with and without coordinates, radius and      *)
(* severity filter                                                         *)

Latitudes == {1290, 1295, 1300}
Meridian == 7760
Radii == {{}, {1}, {5}}

ZoneInit == InitDb /\ env = Env(0)

ZoneNext ==
    \/ users = {} /\ Register("alice", "alice@x.com", "Str0ng!Pw")
    \/ /\ Quota /\ Cardinality(danger_zones) < MaxZones
       /\ \E k \in issued, lat \in Latitudes, sev \in {{}, {"high"}} :
              CreateDangerZone({k}, {lat}, {Meridian}, sev)
    \/ \E k \in issued, lat \in {{}} \cup {{x} : x \in Latitudes},
          lng \in {{}, {Meridian}}, r \in Radii, sev \in {{}, {"high"}} :
              GetDangerZones({k}, lat, lng, r, sev, FALSE)

ZoneSpec == ZoneInit /\ [][ZoneNext]_vars

--------------------------------------------------------------------------
(* Vocabulary of the properties *)

\* the step is a whole request of kind op served on connection 1
Called(op) ==
    /\ calls'[1].op = op
    /\ calls'[1].pc = "done"
    /\ now' = now
    /\ <<users, refresh_tokens, auth_logs, seq, issued, calls>>'
         # <<users, refresh_tokens, auth_logs, seq, issued, calls>>

\* the account is Locked at time t: lockedUntil is in the future
Locked(u, t) == u.locked_until # NULL /\ u.locked_until > t

Correct(u, pw) == u.password_hash.of = pw

Names(u) == {u.username, u.email}

\* the row of the same account after the step
After(u) == CHOOSE v \in users' : v.id = u.id

\* what the client receives
Outcome(f) == <<f.status, f.message, Delivered(f)>>

InvalidCredentialsError(f) ==
    f.pc = "done" /\ f.status = 401 /\ f.message = "Invalid credentials"

AccountLockedError(f) ==
    /\ f.pc = "done" /\ f.status = 401
    /\ f.message = "Account is temporarily locked due to too many failed attempts"

Succeeded(f) == f.pc = "done" /\ f.status \in {200, 201} /\ Delivered(f) # {}

EventsOf(id, logs) == SelectSeq(logs, LAMBDA ev : ev.user_id = id)

Last(s) == s[Len(s)]

Front(s) == SubSeq(s, 1, Len(s) - 1)

RECURSIVE TrailingInvalid(_)
TrailingInvalid(s) ==
    IF s # <<>> /\ Last(s).event_type = "failed_login"
                /\ Last(s).error_message = "Invalid password"
    THEN 1 + TrailingInvalid(Front(s)) ELSE 0

\* the number of wrong-password logins the account has had in a row, with no other
\* event of the account in between, since its counter was 0 (right after its
\* registration or a successful login); -1 when its history is not of that shape
StreakFromZero(id, logs) ==
    LET s == EventsOf(id, logs)
        k == TrailingInvalid(s)
    IN IF k < Len(s) /\ s[Len(s) - k].success
                     /\ s[Len(s) - k].event_type \in {"register", "login"}
       THEN k ELSE -1

RECURSIVE TrailingFailed(_)
TrailingFailed(s) ==
    IF s # <<>> /\ Last(s).event_type = "failed_login"
    THEN 1 + TrailingFailed(Front(s)) ELSE 0

\* the number of failed logins of an account whose whole history is its
\* registration followed by failed logins only; -1 otherwise
FreshFails(id, logs) ==
    LET s == EventsOf(id, logs)
        k == TrailingFailed(s)
    IN IF k < Len(s) /\ \A i \in 1..(Len(s) - k) : s[i].event_type = "register"
       THEN k ELSE -1

--------------------------------------------------------------------------
(* C1: from failedLoginAttempts = 0, the maxLoginAttempts-th consecutive     *)
(* wrong-password login leaves the account Locked (lockedUntil in the        *)
(* future), and a following login with the correct password made before      *)
(* lockedUntil fails with AccountLockedError, not InvalidCredentialsError.   *)
C1_LockAfterMaxAttempts ==
    [][\A u \in users :
        /\ ( /\ Called("login")
             /\ StreakFromZero(u.id, auth_logs) = maxAttempts(env) - 1
             /\ StreakFromZero(u.id, auth_logs') = maxAttempts(env) )
           => Locked(After(u), now')
        /\ ( /\ Called("login")
             /\ StreakFromZero(u.id, auth_logs) = maxAttempts(env)
             /\ calls'[1].args.identifier \in Names(u)
             /\ Correct(u, calls'[1].args.password)
             /\ now < u.locked_until )
           => (AccountLockedError(calls'[1]) /\ ~ InvalidCredentialsError(calls'[1]))
      ]_vars

\* a correct-password login was refused as locked right after the default 5 failures
C1_Witness ==
    \E u \in users :
        /\ env.MAX_LOGIN_ATTEMPTS = 0
        /\ calls[1].op = "login" /\ AccountLockedError(calls[1])
        /\ calls[1].args.identifier \in Names(u)
        /\ Correct(u, calls[1].args.password)
        /\ auth_logs # <<>> /\ Last(auth_logs).user_id = u.id
        /\ StreakFromZero(u.id, Front(auth_logs)) = 5

(* C7: a correct-password login on an active account that is not Locked      *)
(* (lockedUntil null or passed) succeeds and leaves failedLoginAttempts = 0  *)
(* and lockedUntil = null, whatever they were.                               *)
C7_SuccessfulLoginResets ==
    [][\A u \in users :
        ( /\ Called("login")
          /\ calls'[1].args.identifier \in Names(u)
          /\ Correct(u, calls'[1].args.password)
          /\ u.is_active
          /\ ~ Locked(u, now) )
        => /\ calls'[1].status = 200 /\ Succeeded(calls'[1])
           /\ After(u).failed_login_attempts = 0
           /\ After(u).locked_until = NULL
      ]_vars

\* a login succeeded on an account whose lock had run out, and reset it
C7_Witness ==
    \E u \in users :
        /\ calls[1].op = "login" /\ Succeeded(calls[1])
        /\ calls[1].user # {}
        /\ Row(calls[1].user).id = u.id
        /\ Row(calls[1].user).failed_login_attempts >= maxAttempts(env)
        /\ Row(calls[1].user).locked_until # NULL
        /\ u.failed_login_attempts = 0 /\ u.locked_until = NULL

(* C8 as stated: with maxLoginAttempts = 5, on a freshly registered account, *)
(* the fifth wrong-password login in a row itself returns AccountLockedError *)
C8_FifthCallLocked ==
    [][\A u \in users :
        ( /\ maxAttempts(env) = 5
          /\ Called("login")
          /\ calls'[1].args.identifier \in Names(u)
          /\ ~ Correct(u, calls'[1].args.password)
          /\ FreshFails(u.id, auth_logs) = 4
          /\ FreshFails(u.id, auth_logs') = 5 )
        => AccountLockedError(calls'[1])
      ]_vars

(* C8 amended: with maxLoginAttempts = 5, on a freshly registered account,   *)
(* the fifth wrong-password login in a row returns InvalidCredentialsError   *)
(* and leaves the account Locked; the sixth login, made before lockedUntil,  *)
(* is the first to return AccountLockedError.                                *)
C8_FifthInvalidSixthLocked ==
    [][\A u \in users :
        /\ ( /\ maxAttempts(env) = 5
             /\ Called("login")
             /\ calls'[1].args.identifier \in Names(u)
             /\ ~ Correct(u, calls'[1].args.password)
             /\ FreshFails(u.id, auth_logs) = 4
             /\ FreshFails(u.id, auth_logs') = 5 )
           => (InvalidCredentialsError(calls'[1]) /\ Locked(After(u), now'))
        /\ ( /\ maxAttempts(env) = 5
             /\ Called("login")
             /\ calls'[1].args.identifier \in Names(u)
             /\ FreshFails(u.id, auth_logs) = 5
             /\ now < u.locked_until )
           => AccountLockedError(calls'[1])
      ]_vars

\* the sixth login in a row was the one refused as locked
C8_Witness ==
    \E u \in users :
        /\ maxAttempts(env) = 5
        /\ calls[1].op = "login" /\ AccountLockedError(calls[1])
        /\ calls[1].args.identifier \in Names(u)
        /\ ~ Correct(u, calls[1].args.password)
        /\ FreshFails(u.id, auth_logs) = 6
        /\ Last(auth_logs).error_message = "Account locked"

(* C9: a login on a Locked account fails with AccountLockedError whatever    *)
(* the password, appends a failed_login event, and leaves                    *)
(* failedLoginAttempts and lockedUntil unchanged.                            *)
C9_LockedLoginFrame ==
    [][\A u \in users :
        ( /\ Called("login")
          /\ calls'[1].args.identifier \in Names(u)
          /\ Locked(u, now) )
        => /\ AccountLockedError(calls'[1])
           /\ Len(auth_logs') = Len(auth_logs) + 1
           /\ Front(auth_logs') = auth_logs
           /\ Last(auth_logs').event_type = "failed_login"
           /\ Last(auth_logs').user_id = u.id
           /\ ~ Last(auth_logs').success
           /\ After(u).failed_login_attempts = u.failed_login_attempts
           /\ After(u).locked_until = u.locked_until
      ]_vars

\* a correct-password login was refused on a Locked account
C9_Witness ==
    \E u \in users :
        /\ calls[1].op = "login" /\ AccountLockedError(calls[1])
        /\ calls[1].args.identifier \in Names(u)
        /\ Correct(u, calls[1].args.password)
        /\ Locked(u, now)
        /\ Last(auth_logs).event_type = "failed_login"

(* C10: a login with an unknown identifier and a wrong-password login on an  *)
(* existing, active, unlocked account give the client the same outcome       *)
(* (status, message, no tokens); they differ only in the audit event:        *)
(* userId absent versus present, and the errorMessage.                       *)
C10_SameOutcome ==
    \A u \in users : \A i \in Usernames \cup Emails : \A pw1, pw2 \in Passwords :
        ( /\ selectUsersOr(DB, i, i) = {}
          /\ u.is_active /\ ~ Locked(u, now) /\ ~ Correct(u, pw2) )
        => LET unknown == Run(DB, NewCall("login",
                              [identifier |-> i, password |-> pw1], "login:select"),
                              now, env)
               wrong == Run(DB, NewCall("login",
                              [identifier |-> u.username, password |-> pw2], "login:select"),
                              now, env)
           IN /\ Outcome(unknown.f) = Outcome(wrong.f)
              /\ unknown.f.status >= 400
              /\ Last(unknown.d.auth_logs).user_id = NULL
              /\ Last(wrong.d.auth_logs).user_id = u.id
              /\ Last(unknown.d.auth_logs).error_message
                   # Last(wrong.d.auth_logs).error_message
              /\ Last(unknown.d.auth_logs).event_type = Last(wrong.d.auth_logs).event_type

\* both kinds of failed login have been served: the last one for an unknown
\* identifier, an earlier one for a wrong password on an account still unlocked
C10_Witness ==
    \E u \in users :
        /\ calls[1].op = "login" /\ calls[1].user = {} /\ calls[1].status = 401
        /\ Last(auth_logs).error_message = "User not found"
        /\ u.is_active /\ ~ Locked(u, now) /\ u.failed_login_attempts > 0

--------------------------------------------------------------------------
(* Vocabulary of the session properties *)

InvalidTokenError(f) ==
    /\ f.pc = "done" /\ f.status = 401 /\ Delivered(f) = {}
    /\ f.message \in {"Invalid refresh token", "Invalid or expired refresh token",
                      "User not found or inactive"}

\* the ledger rows of a refresh token
RecordsOf(k, ledger) == {r \in ledger : r.token_id = k.tokenId}

\* a refresh token handed to a client, not yet used, unexpired, of an active user
Fresh(k) ==
    /\ k \in issued /\ k.type = "refresh"
    /\ now < k.exp
    /\ \E r \in RecordsOf(k, refresh_tokens) : ~ r.is_revoked
    /\ \E u \in users : u.id = k.userId /\ u.is_active

(* C2: a refresh token returned by register or login, presented to refresh   *)
(* twice in sequence (unexpired, user active), succeeds the first time and   *)
(* fails with InvalidTokenError the second time.                             *)
C2_RefreshOnce ==
    [][\A k \in issued :
        /\ ( /\ Called("refresh")
             /\ calls'[1].args.refreshToken = {k}
             /\ Fresh(k) )
           => Succeeded(calls'[1])
        /\ ( /\ calls[1].op = "refresh" /\ Succeeded(calls[1])
             /\ calls[1].args.refreshToken = {k}
             /\ Called("refresh")
             /\ calls'[1].args.refreshToken = {k} )
           => InvalidTokenError(calls'[1])
      ]_vars

\* the second presentation of a still unexpired token was refused: its row is
\* revoked by the rotation (nobody logged out or changed a password) and the
\* replacement row exists
C2_Witness ==
    \E k \in issued :
        /\ calls[1].op = "refresh" /\ calls[1].args.refreshToken = {k}
        /\ InvalidTokenError(calls[1]) /\ calls[1].message = "Invalid refresh token"
        /\ now < k.exp
        /\ \A i \in 1..Len(auth_logs) : auth_logs[i].event_type \in {"register", "login"}
        /\ \E r \in RecordsOf(k, refresh_tokens) : r.is_revoked
        /\ \E r \in refresh_tokens : r.user_id = k.userId /\ ~ r.is_revoked

(* C4: after logout(userId, token) has completed for a refresh token owned   *)
(* by userId, every later refresh presenting that token fails with           *)
(* InvalidTokenError: the logout leaves the token's rows revoked, a revoked  *)
(* row never becomes usable again, and a refresh of a token with no usable   *)
(* row fails with InvalidTokenError.                                         *)
C4_LogoutThenRefreshFails ==
    [][/\ \A k \in issued :
            /\ ( /\ Called("logout") /\ calls'[1].status = 200
                 /\ calls'[1].args.refreshToken = {k}
                 /\ k.type = "refresh" /\ k.userId = calls'[1].uid )
               => \A r \in RecordsOf(k, refresh_tokens') : r.is_revoked
            /\ ( /\ Called("refresh")
                 /\ calls'[1].args.refreshToken = {k}
                 /\ \A r \in RecordsOf(k, refresh_tokens) : r.is_revoked )
               => InvalidTokenError(calls'[1])
       /\ \A r \in refresh_tokens :
            r.is_revoked => \A r2 \in refresh_tokens' : r2.id = r.id => r2.is_revoked
      ]_vars

\* a refresh was refused right after the logout that revoked its token
C4_Witness ==
    \E k \in issued :
        /\ calls[1].op = "refresh" /\ calls[1].args.refreshToken = {k}
        /\ InvalidTokenError(calls[1]) /\ calls[1].message = "Invalid refresh token"
        /\ now < k.exp
        /\ auth_logs # <<>> /\ Last(auth_logs).event_type = "logout"
        /\ Last(auth_logs).user_id = k.userId
        /\ Cardinality({r \in refresh_tokens : r.user_id = k.userId}) = 1
        /\ \A r \in RecordsOf(k, refresh_tokens) : r.is_revoked

(* C5: after changePassword with the correct current password has           *)
(* succeeded, every refresh record of that user that existed before the      *)
(* call is revoked, and a following refresh with any refresh token of that   *)
(* user issued before the change fails.                                      *)
C5_ChangePasswordRevokesAll ==
    [][/\ ( /\ Called("changePassword") /\ calls'[1].status = 200 )
          => \A r \in refresh_tokens :
                r.user_id = calls'[1].uid
                => \E r2 \in refresh_tokens' : r2.id = r.id /\ r2.is_revoked
       /\ \A k \in issued :
            ( /\ calls[1].op = "changePassword" /\ calls[1].status = 200
              /\ calls[1].pc = "done"
              /\ k.type = "refresh" /\ k.userId = calls[1].uid
              /\ Called("refresh")
              /\ calls'[1].args.refreshToken = {k} )
            => InvalidTokenError(calls'[1])
      ]_vars

\* a refresh with a still unexpired token was refused right after a password
\* change of an account that held two sessions
C5_Witness ==
    \E k \in issued :
        /\ calls[1].op = "refresh" /\ calls[1].args.refreshToken = {k}
        /\ InvalidTokenError(calls[1]) /\ calls[1].message = "Invalid refresh token"
        /\ now < k.exp
        /\ auth_logs # <<>> /\ Last(auth_logs).event_type = "password_change"
        /\ Last(auth_logs).success /\ Last(auth_logs).user_id = k.userId
        /\ Cardinality({r \in refresh_tokens : r.user_id = k.userId}) >= 2
        /\ \A r \in refresh_tokens : r.user_id = k.userId => r.is_revoked
        /\ \A i \in 1..Len(auth_logs) : auth_logs[i].event_type # "logout"

--------------------------------------------------------------------------
(* C3: in every interleaving of the store reads and writes of concurrent     *)
(* refresh calls, two refresh calls presenting the same token never both     *)
(* succeed.                                                                  *)
C3_AtMostOneRefresh ==
    \A p, q \in Procs :
        ( /\ p # q
          /\ calls[p].op = "refresh" /\ calls[q].op = "refresh"
          /\ calls[p].args.refreshToken = calls[q].args.refreshToken )
        => ~ (Succeeded(calls[p]) /\ Succeeded(calls[q]))

(* C6: register with a username or an email equal to that of an existing     *)
(* user fails with ConflictError and creates no user row and no refresh      *)
(* record, for every collision shape, including a username that matches one  *)
(* user together with an email that matches another.                         *)
ConflictError(f) ==
    /\ f.pc = "done" /\ f.status = 400 /\ Delivered(f) = {}
    /\ f.message \in {"User with this username already exists",
                      "User with this email already exists"}

C6_RegisterConflict ==
    [][( /\ Called("register")
         /\ \E u \in users : \/ u.username = calls'[1].args.username
                             \/ u.email = calls'[1].args.email )
       => /\ ConflictError(calls'[1])
          /\ users' = users
          /\ refresh_tokens' = refresh_tokens
      ]_vars

--------------------------------------------------------------------------
(* Vocabulary of the account properties *)

\* the request that the call served on connection 1 in this step answered
Request == NewCall(calls'[1].op, calls'[1].args,
                   IF calls'[1].op \in {"register", "login", "refresh"}
                   THEN calls'[1].op \o ":select" ELSE "auth:select")

\* the call passed the authentication middleware
Authenticated(f) == f.uid # NULL

LogoutEvent(uid) ==
    [user_id |-> uid, event_type |-> "logout", success |-> TRUE,
     error_message |-> "", metadata |-> <<>>]

(* C11: logout never fails the caller and is idempotent: for any user and    *)
(* any presented value (valid token, revoked token, another user's token,    *)
(* malformed string, none) it returns success and appends a success logout   *)
(* event, and repeating it gives the same result and the same ledger state.  *)
C11_LogoutIdempotent ==
    [][( /\ Called("logout") /\ Authenticated(calls'[1]) )
       => /\ calls'[1].status = 200 /\ calls'[1].message = "Logout successful"
          /\ auth_logs' = Append(auth_logs, LogoutEvent(calls'[1].uid))
          /\ users' = users
          /\ \A r \in refresh_tokens' : r.user_id # calls'[1].uid => r \in refresh_tokens
          /\ LET again == Run(DB', Request, now, env)
             IN /\ Outcome(again.f) = Outcome(calls'[1])
                /\ again.d.refresh_tokens = refresh_tokens'
                /\ again.d.users = users'
                /\ again.d.auth_logs = Append(auth_logs', LogoutEvent(calls'[1].uid))
      ]_vars

\* a second logout was served, this one presenting the still usable
\* token of another user, which stays usable
C11_Witness ==
    \E k \in issued :
        /\ calls[1].op = "logout" /\ calls[1].status = 200
        /\ calls[1].args.refreshToken = {k}
        /\ k.type = "refresh" /\ k.userId # calls[1].uid
        /\ \E r \in RecordsOf(k, refresh_tokens) : ~ r.is_revoked
        /\ \E r \in refresh_tokens : r.user_id = calls[1].uid /\ r.is_revoked
        /\ Len(SelectSeq(auth_logs, LAMBDA ev : ev.event_type = "logout")) >= 2

(* C12: every completed call of register, login, logout, changePassword or   *)
(* deleteAccount that reaches a decision point, whether it succeeds or       *)
(* fails with a conflict or credential error, has appended at least one      *)
(* AuthEvent before it returns.                                              *)
ReachedDecision(f) ==
    \/ f.op \in {"register", "login"}
    \/ f.op \in {"logout", "changePassword"} /\ Authenticated(f)
    \/ f.op = "deleteAccount" /\ Authenticated(f) /\ f.args.password # ""

C12_EveryDecisionAudited ==
    [][\A op \in {"register", "login", "logout", "changePassword", "deleteAccount"} :
        (Called(op) /\ ReachedDecision(calls'[1]))
        => Len(auth_logs') > Len(auth_logs)
      ]_vars

(* C16: after deleteAccount with the correct password has succeeded, the     *)
(* user row and all refresh records of that user no longer exist; every      *)
(* later refresh with a token of that user fails, and every later request    *)
(* carrying that user's access token is rejected.                            *)
Gone(id, rows) == ~ \E u \in rows : u.id = id

C16_DeletedAccountIsGone ==
    [][/\ ( Called("deleteAccount") /\ calls'[1].status = 200 )
          => /\ Correct(Row(calls'[1].user), calls'[1].args.password)
             /\ Gone(calls'[1].uid, users')
             /\ ~ \E r \in refresh_tokens' : r.user_id = calls'[1].uid
       /\ \A k \in issued :
            Gone(k.userId, users)
            => /\ Gone(k.userId, users')
               /\ ~ \E r \in refresh_tokens' : r.user_id = k.userId
               /\ ( Called("refresh") /\ calls'[1].args.refreshToken = {k} )
                  => InvalidTokenError(calls'[1])
               /\ ( /\ calls'[1].op \in {"logout", "changePassword", "deleteAccount"}
                    /\ Called(calls'[1].op)
                    /\ calls'[1].args.accessToken = {k} )
                  => /\ calls'[1].status = 401 /\ ~ Authenticated(calls'[1])
                     /\ users' = users /\ refresh_tokens' = refresh_tokens
                     /\ auth_logs' = auth_logs
      ]_vars

\* a request carrying the unexpired access token of a deleted account was rejected
C16_Witness ==
    \E k \in issued :
        /\ calls[1].op \in {"logout", "changePassword", "deleteAccount"}
        /\ calls[1].args.accessToken = {k} /\ k.type = "access" /\ now < k.exp
        /\ calls[1].status = 401 /\ calls[1].message = "Invalid token - user not found"
        /\ Gone(k.userId, users)
        /\ \E i \in 1..Len(auth_logs) : auth_logs[i].event_type = "account_deletion"

(* C18: changePassword or deleteAccount called with a wrong password returns *)
(* a client error (not the server-failure outcome), leaves the user row and  *)
(* all refresh records unchanged, and appends an AuthEvent with success =    *)
(* false for that operation.                                                 *)
C18_WrongPasswordAudited ==
    [][\A u \in users :
        ( /\ \/ /\ Called("changePassword")
                /\ ~ Correct(u, calls'[1].args.currentPassword)
             \/ /\ Called("deleteAccount")
                /\ calls'[1].args.password # ""
                /\ ~ Correct(u, calls'[1].args.password)
          /\ calls'[1].uid = u.id )
        => /\ calls'[1].status = 400
           /\ users' = users /\ refresh_tokens' = refresh_tokens
           /\ Len(auth_logs') = Len(auth_logs) + 1
           /\ Front(auth_logs') = auth_logs
           /\ Last(auth_logs').user_id = u.id
           /\ ~ Last(auth_logs').success
      ]_vars

(* C13: a failure of the audit-log write never changes the outcome of the    *)
(* operation that invoked it: the returned result and the resulting users    *)
(* and refresh_tokens state are the same whether the audit append succeeds   *)
(* or fails.                                                                 *)
C13_AuditFailureIsSilent ==
    [][\A op \in {"register", "login", "refresh", "logout", "changePassword",
                  "deleteAccount"} :
        ( Called(op) /\ Down(calls'[1], "auth_logs") )
        => LET ok == Run(DB, Request, now, env)
           IN /\ Outcome(calls'[1]) = Outcome(ok.f)
              /\ users' = ok.d.users
              /\ refresh_tokens' = ok.d.refresh_tokens
              /\ Len(auth_logs') = Len(auth_logs)
      ]_vars

\* a password change went through although none of the account's events was
\* ever written
C13_Witness ==
    /\ calls[1].op = "changePassword" /\ calls[1].status = 200
    /\ Down(calls[1], "auth_logs")
    /\ auth_logs = <<>>
    /\ \E r \in refresh_tokens : r.is_revoked

(* C17: for register, login and refresh, a conflict, credential or token     *)
(* failure is reported as a 4xx outcome, and a failure of a store read or    *)
(* write as a 5xx outcome: a storage failure is never reported with the      *)
(* status of a credential failure.                                           *)
C17_StorageFailureIs5xx ==
    [][/\ \A op \in {"register", "login", "refresh"} :
            ( Called(op) /\ Down(calls'[1], "none") /\ calls'[1].status >= 400 )
            => calls'[1].status \in 400..499
       /\ \A op \in {"register", "login"} :
            ( Called(op) /\ Down(calls'[1], "users") )
            => calls'[1].status \in 500..599
       /\ ( /\ Called("refresh") /\ Down(calls'[1], "refresh_tokens")
            /\ calls'[1].args.refreshToken # {}
            /\ verifyRefreshToken(Row(calls'[1].args.refreshToken), now, env) )
          => calls'[1].status \in 500..599
      ]_vars

(* C14: for every user, verifyAccess(issueAccess(user)) succeeds within the  *)
(* token's lifetime and returns claims whose userId equals user.id; a token  *)
(* string that differs from an issued token in one character fails           *)
(* verifyAccess with InvalidTokenError.                                      *)
C14_AccessRoundTrip ==
    [][/\ ( Called("register") /\ Succeeded(calls'[1]) )
          => \A tk \in calls'[1].tokens :
                /\ \A t \in tk.accessToken.iat .. (tk.accessToken.exp - 1) :
                      verifyAccessToken(tk.accessToken, t, env)
                /\ Claims(tk.accessToken).userId = Row(calls'[1].user).id
       /\ \A a \in issued :
            a.type = "access"
            => /\ ( /\ Called("logout") /\ calls'[1].args.accessToken = {a}
                    /\ now < a.exp /\ ~ Gone(a.userId, users) )
                  => ( Authenticated(calls'[1]) /\ calls'[1].uid = a.userId )
               /\ \A x \in Tampered(a) :
                    /\ ~ verifyAccessToken(x, now, env)
                    /\ ( Called("logout") /\ calls'[1].args.accessToken = {x} )
                       => /\ calls'[1].status = 401
                          /\ calls'[1].message = "Invalid or expired token"
                          /\ ~ Authenticated(calls'[1])
                          /\ <<users, refresh_tokens, auth_logs>>'
                               = <<users, refresh_tokens, auth_logs>>
      ]_vars

\* an unexpired access token of one account, rewritten to name the other
\* account, was refused
C14_Witness ==
    \E a \in issued : \E u \in users :
        /\ a.type = "access" /\ now < a.exp /\ u.id # a.userId
        /\ calls[1].op = "logout" /\ calls[1].status = 401
        /\ calls[1].args.accessToken = {[a EXCEPT !.userId = u.id]}

(* C15: the two token classes are independent: a token produced by           *)
(* issueRefresh is never accepted by verifyAccess, hence never by the        *)
(* authentication middleware, and a token produced by issueAccess is never   *)
(* accepted by verifyRefresh, for every configuration that passes the        *)
(* start-up check.                                                           *)
C15_TokenClassesIndependent ==
    /\ \A k \in issued :
         /\ k.type = "refresh" => ~ verifyAccessToken(k, now, env)
         /\ k.type = "access" => ~ verifyRefreshToken(k, now, env)
    /\ ( calls[1].op = "logout" /\ Authenticated(calls[1]) )
       => Row(calls[1].args.accessToken).type = "access"

\* the refresh record r once revoked
Revoked(r) == [r EXCEPT !.is_revoked = TRUE]

(* C19: revokeAllSessions(userId, currentTokenId?) revokes every refresh     *)
(* record of that user except the one whose token_id is currentTokenId,      *)
(* which it leaves as it was; neither revokeAllSessions nor revokeSession    *)
(* changes a record that belongs to another user, and neither adds or        *)
(* removes a record.                                                         *)
C19_RevocationIsPerUser ==
    [][( /\ \/ Called("revokeAllSessions") \/ Called("revokeSession")
         /\ Authenticated(calls'[1]) )
       => LET uid == calls'[1].uid
              cur == IF calls'[1].op = "revokeAllSessions"
                     THEN calls'[1].args.currentTokenId ELSE NULL
          IN /\ calls'[1].status = 200
             /\ {r.id : r \in refresh_tokens'} = {r.id : r \in refresh_tokens}
             /\ Cardinality(refresh_tokens') = Cardinality(refresh_tokens)
             /\ \A r \in refresh_tokens :
                    r.user_id # uid => r \in refresh_tokens'
             /\ calls'[1].op = "revokeAllSessions"
                => \A r \in refresh_tokens :
                      r.user_id = uid
                      => IF cur # NULL /\ r.token_id = cur
                         THEN r \in refresh_tokens'
                         ELSE Revoked(r) \in refresh_tokens'
      ]_vars

\* a bulk revocation that named the caller's current token was served: that
\* token's record is still usable, another record of the caller is revoked,
\* and a record of another user is still usable
C19_Witness ==
    /\ calls[1].op = "revokeAllSessions" /\ calls[1].status = 200
    /\ calls[1].args.currentTokenId # NULL
    /\ \E kept, gone, other \in refresh_tokens :
          /\ kept.user_id = calls[1].uid /\ gone.user_id = calls[1].uid
          /\ kept.token_id = calls[1].args.currentTokenId
          /\ ~ kept.is_revoked
          /\ gone.token_id # kept.token_id /\ gone.is_revoked
          /\ other.user_id # calls[1].uid /\ ~ other.is_revoked

AccountInactiveError(f) ==
    f.pc = "done" /\ f.status = 401 /\ f.message = "Account is deactivated"

(* C20: a login on an existing account that is not Locked and whose          *)
(* is_active is false fails with AccountInactiveError whether the password   *)
(* is right or wrong; it appends one failed_login event that carries the     *)
(* account's id, hands out no tokens, stores no refresh record and leaves    *)
(* the account's row (failed_login_attempts, locked_until, last_login)       *)
(* unchanged.                                                                *)
C20_InactiveLoginRejected ==
    [][\A u \in users :
        ( /\ Called("login")
          /\ calls'[1].args.identifier \in Names(u)
          /\ ~ u.is_active /\ ~ Locked(u, now) )
        => /\ AccountInactiveError(calls'[1])
           /\ Delivered(calls'[1]) = {}
           /\ issued' = issued
           /\ refresh_tokens' = refresh_tokens
           /\ users' = users
           /\ Len(auth_logs') = Len(auth_logs) + 1
           /\ Front(auth_logs') = auth_logs
           /\ Last(auth_logs').user_id = u.id
           /\ Last(auth_logs').event_type = "failed_login"
           /\ ~ Last(auth_logs').success
      ]_vars

\* a login with the right password was refused on a deactivated account that
\* had failed logins on its counter and no lock in force
C20_Witness ==
    \E u \in users :
        /\ calls[1].op = "login" /\ AccountInactiveError(calls[1])
        /\ calls[1].args.identifier \in Names(u)
        /\ Correct(u, calls[1].args.password)
        /\ ~ u.is_active /\ ~ Locked(u, now) /\ u.failed_login_attempts > 0
        /\ Last(auth_logs).user_id = u.id
        /\ Last(auth_logs).error_message = "Account inactive"

--------------------------------------------------------------------------
(* Vocabulary of the counter and rotation properties *)

\* the configured lock duration, read from the configuration itself
LockoutMinutes == IF env.LOCKOUT_TIME = 0 THEN DefaultLockoutTime ELSE env.LOCKOUT_TIME

(* C21: a wrong-password login on an existing, active, unlocked account with *)
(* stored failed_login_attempts = k stores k + 1, sets locked_until to the   *)
(* time of this failure plus the lockout minutes if and only if              *)
(* k + 1 >= maxLoginAttempts (otherwise locked_until is left as it was),     *)
(* appends a failed_login event whose metadata carries k + 1, and fails      *)
(* with InvalidCredentialsError.                                             *)
C21_WrongPasswordCounts ==
    [][\A u \in users :
        ( /\ Called("login")
          /\ calls'[1].args.identifier \in Names(u)
          /\ u.is_active /\ ~ Locked(u, now)
          /\ ~ Correct(u, calls'[1].args.password) )
        => LET k == u.failed_login_attempts
           IN /\ After(u) =
                    [u EXCEPT !.failed_login_attempts = k + 1,
                              !.locked_until = IF k + 1 >= maxAttempts(env)
                                               THEN now + LockoutMinutes ELSE @]
              /\ (k + 1 >= maxAttempts(env)) <=> (After(u).locked_until = now + LockoutMinutes)
              /\ Len(auth_logs') = Len(auth_logs) + 1
              /\ Last(auth_logs').user_id = u.id
              /\ Last(auth_logs').event_type = "failed_login"
              /\ Last(auth_logs').error_message = "Invalid password"
              /\ Last(auth_logs').metadata.failedAttempts = k + 1
              /\ InvalidCredentialsError(calls'[1])
              /\ Delivered(calls'[1]) = {}
      ]_vars

\* a wrong-password login went past the threshold on an account whose earlier
\* lock had run out: its counter is above maxLoginAttempts, the event carries
\* the counter, and the new lock ends LockoutMinutes from now
C21_Witness ==
    \E u \in users :
        /\ calls[1].op = "login" /\ InvalidCredentialsError(calls[1])
        /\ calls[1].args.identifier \in Names(u)
        /\ Last(auth_logs).error_message = "Invalid password"
        /\ Last(auth_logs).metadata.failedAttempts = u.failed_login_attempts
        /\ u.failed_login_attempts > maxAttempts(env)
        /\ u.locked_until = now + LockoutMinutes

\* the step is the serving of a request of kind op on connection 1, not a
\* step of the environment that follows it
Served(op) ==
    /\ Called(op)
    /\ LET s == Run(DB, Request, now, env)
       IN /\ s.f = calls'[1]
          /\ s.d.users = users'
          /\ s.d.refresh_tokens = refresh_tokens'
          /\ s.d.auth_logs = auth_logs'

\* the refresh token presented by the refresh call just served
PresentedToken == Row(calls'[1].args.refreshToken)

(* C22: refresh succeeds only if, at the time of its lookup, a refresh       *)
(* record exists whose token_id equals the token's claim, whose token_hash   *)
(* equals the digest of the presented token string, with is_revoked = false  *)
(* and expires_at not passed, and the user named by the token exists with    *)
(* is_active = true.                                                         *)
C22_RefreshNeedsLiveRecord ==
    [][( /\ Served("refresh") /\ Succeeded(calls'[1]) )
       => /\ calls'[1].args.refreshToken # {}
          /\ jwtDecode(PresentedToken) # {}
          /\ \E r \in refresh_tokens :
                /\ r.token_id = PresentedToken.tokenId
                /\ r.token_hash = sha256(PresentedToken)
                /\ ~ r.is_revoked
                /\ ~ (r.expires_at < now)
          /\ \E u \in users : u.id = PresentedToken.userId /\ u.is_active
      ]_vars

\* a refresh succeeded for one account while a rotated (revoked) record is in
\* the ledger and the other account is deactivated
C22_Witness ==
    /\ calls[1].op = "refresh" /\ Succeeded(calls[1])
    /\ \E r \in refresh_tokens : r.is_revoked
    /\ \E u \in users : ~ u.is_active
    /\ \E u \in users : u.is_active /\ calls[1].user # {} /\ Row(calls[1].user).id = u.id

ExpiredTokenError(f) ==
    f.pc = "done" /\ f.status = 401 /\ f.message = "Refresh token expired"

\* the non-revoked records that match the presented token and its digest
Matching(k, ledger) ==
    {r \in ledger : r.token_id = k.tokenId /\ r.token_hash = sha256(k) /\ ~ r.is_revoked}

(* C23: refresh fails with InvalidTokenError when no non-revoked record      *)
(* matches the presented token, with ExpiredTokenError when the matching     *)
(* record's expires_at has passed, and with InvalidTokenError when the       *)
(* owning user is missing or inactive; in each of these failures no refresh  *)
(* record is revoked or inserted.                                            *)
C23_RefreshFailures ==
    [][( /\ Served("refresh") /\ calls'[1].args.refreshToken # {} )
       => LET k == PresentedToken
              live == Matching(k, refresh_tokens)
              owner == {u \in users : u.id = k.userId /\ u.is_active}
          IN /\ live = {}
                => InvalidTokenError(calls'[1]) /\ refresh_tokens' = refresh_tokens
             /\ ( live # {} /\ \E r \in live : r.expires_at < now )
                => ExpiredTokenError(calls'[1]) /\ refresh_tokens' = refresh_tokens
             /\ ( live # {} /\ (\A r \in live : ~ (r.expires_at < now)) /\ owner = {} )
                => InvalidTokenError(calls'[1]) /\ refresh_tokens' = refresh_tokens
      ]_vars

\* the refresh token the call just served hands to the client
ReturnedToken == Row(calls'[1].tokens).refreshToken

(* C24: after a successful refresh the presented record has is_revoked =     *)
(* true and exactly one new record exists, not revoked, owned by the same    *)
(* user, whose token_id and token_hash are those of the returned refresh     *)
(* token; no other refresh record and no user field is changed.              *)
C24_RotationFrame ==
    [][( /\ Served("refresh") /\ Succeeded(calls'[1]) )
       => LET old == Matching(PresentedToken, refresh_tokens)
              added == refresh_tokens' \ (refresh_tokens \cup {Revoked(r) : r \in old})
          IN /\ Cardinality(old) = 1
             /\ Revoked(Row(old)) \in refresh_tokens'
             /\ Row(old) \notin refresh_tokens'
             /\ (refresh_tokens \ old) \subseteq refresh_tokens'
             /\ Cardinality(refresh_tokens') = Cardinality(refresh_tokens) + 1
             /\ Cardinality(added) = 1
             /\ ReturnedToken \in Delivered(calls'[1])
             /\ ReturnedToken # PresentedToken
             /\ \A n \in added :
                    /\ n.user_id = Row(old).user_id
                    /\ n.token_id = ReturnedToken.tokenId
                    /\ n.token_hash = sha256(ReturnedToken)
                    /\ ~ n.is_revoked
             /\ users' = users
      ]_vars

\* a refresh has rotated one account's token: the record of the presented
\* token is revoked, the record of the returned token is usable, and so is
\* still the record of the other account
C24_Witness ==
    /\ calls[1].op = "refresh" /\ Succeeded(calls[1])
    /\ \E old, new, other \in refresh_tokens :
          /\ old.token_id = Row(calls[1].args.refreshToken).tokenId /\ old.is_revoked
          /\ new.token_id = Row(calls[1].tokens).refreshToken.tokenId /\ ~ new.is_revoked
          /\ new.user_id = old.user_id
          /\ other.user_id # old.user_id /\ ~ other.is_revoked

\* the refresh call f has made its first write and not (or not successfully)
\* its second: it stands between the two, or its insert has failed
Stranded(f) ==
    /\ f.op = "refresh"
    /\ \/ f.pc = "refresh:store"
       \/ f.pc = "done" /\ f.message = "Failed to store refresh token"

(* C25: rotation is two separate store writes, revoke-old then insert-new:   *)
(* whenever the insert has failed, or the call stands between the two        *)
(* writes (where it stays if the process stops), the presented record is     *)
(* revoked, no record of the replacement token exists, the call has handed   *)
(* no token to the client, and neither the presented nor the replacement     *)
(* token refreshes.                                                          *)
C25_RotationNotAtomic ==
    \A p \in Procs :
        Stranded(calls[p])
        => LET k == Row(calls[p].args.refreshToken)
               new == Row(calls[p].tokens).refreshToken
           IN /\ \E r \in refresh_tokens : r.token_id = k.tokenId
              /\ \A r \in refresh_tokens : r.token_id = k.tokenId => r.is_revoked
              /\ \A r \in refresh_tokens : r.token_id # new.tokenId
              /\ Delivered(calls[p]) = {}
              /\ new \notin issued
              /\ \A x \in {k, new} :
                    ~ Succeeded(Run(DB, NewCall("refresh", [refreshToken |-> {x}],
                                                "refresh:select"), now, env).f)

\* the insert of a rotation failed: the call has answered with an error, the
\* account has no usable refresh record left, and no other call is in progress
C25_Witness ==
    /\ calls[1].op = "refresh" /\ calls[1].pc = "done" /\ calls[1].status = 401
    /\ calls[1].message = "Failed to store refresh token"
    /\ calls[1].fault = "refresh_tokens:insert"
    /\ \A p \in Procs : calls[p].pc = "done"
    /\ \E r \in refresh_tokens : r.user_id = Row(calls[1].user).id
    /\ \A r \in refresh_tokens : r.user_id = Row(calls[1].user).id => r.is_revoked

\* the login call f has failed on a wrong password
WrongPassword(f) ==
    /\ f.op = "login" /\ InvalidCredentialsError(f) /\ f.user # {}
    /\ ~ Correct(Row(f.user), f.args.password)

\* the wrong passwords tested on the account so far
Tested(id, logs) ==
    Len(SelectSeq(logs, LAMBDA ev : ev.user_id = id /\ ev.error_message = "Invalid password"))

\* the login call f has written the counter for a wrong password
Wrote(f) ==
    /\ f.op = "login" /\ f.user # {}
    /\ ~ Correct(Row(f.user), f.args.password)
    /\ \/ f.pc = "login:logFailed"
       \/ f.pc = "done" /\ InvalidCredentialsError(f)

(* C26: two concurrent wrong-password login calls on the same account can    *)
(* both read the same failed_login_attempts value k and both write k + 1:    *)
(* when one call writes the counter after another call that read the same    *)
(* row has written it, the stored counter stays k + 1 instead of becoming    *)
(* k + 2, although both passwords were tested.                               *)
C26_LostUpdate ==
    [][\A p, q \in Procs : \A u \in users :
        ( /\ p # q
          /\ calls[p].op = "login" /\ calls[p].pc = "login:check"
          /\ calls'[p].pc = "login:logFailed"
          /\ Wrote(calls[q])
          /\ calls[q].user = calls[p].user
          /\ u.id = Row(calls[p].user).id
          /\ u.failed_login_attempts = Row(calls[p].user).failed_login_attempts + 1 )
        => /\ After(u).failed_login_attempts = u.failed_login_attempts
           /\ After(u).failed_login_attempts
                = Row(calls[p].user).failed_login_attempts + 1
      ]_vars

\* two wrong-password logins raced on a fresh account with maxLoginAttempts
\* = 2: both passwords were tested, the counter is 1, and the account is not
\* locked, so a third wrong password can still be tested
C26_Witness ==
    \E u \in users :
        /\ WrongPassword(calls[1]) /\ WrongPassword(calls[2])
        /\ calls[1].user = calls[2].user
        /\ Tested(u.id, auth_logs) >= maxAttempts(env)
        /\ u.failed_login_attempts < maxAttempts(env)
        /\ u.locked_until = NULL /\ u.last_login = NULL

\* a register request for the given identifiers
RegisterCall(username, email) ==
    NewCall("register", [username |-> username, email |-> email,
                         password |-> "0ther!Pw"], "register:select")

DecodedTokenIds(presented) ==
    {c.tokenId : c \in UNION {jwtDecode(k) : k \in presented}} \ {NULL}

(* C28: logout(userId, token) changes at most the refresh record whose       *)
(* token_id equals the tokenId decoded from the presented token and whose    *)
(* owner is userId, and the only change is is_revoked = true; presenting     *)
(* another user's refresh token revokes nothing, and no user field is        *)
(* changed.                                                                  *)
C28_LogoutFrame ==
    [][( /\ Called("logout") /\ Authenticated(calls'[1]) )
       => LET uid == calls'[1].uid
              ids == DecodedTokenIds(calls'[1].args.refreshToken)
              mine == {r \in refresh_tokens : r.token_id \in ids /\ r.user_id = uid}
          IN /\ users' = users
             /\ Cardinality(mine) <= 1
             /\ refresh_tokens' = (refresh_tokens \ mine) \cup {Revoked(r) : r \in mine}
             /\ \A k \in calls'[1].args.refreshToken :
                    (jwtDecode(k) # {} /\ k.userId # uid)
                    => refresh_tokens' = refresh_tokens
      ]_vars

\* a user has logged out with an own refresh token while another user's
\* record was in the ledger: the own record is revoked, the other still usable
C28_Witness ==
    \E k \in issued :
        /\ calls[1].op = "logout" /\ calls[1].status = 200
        /\ calls[1].args.refreshToken = {k}
        /\ k.type = "refresh" /\ k.userId = calls[1].uid
        /\ \A r \in RecordsOf(k, refresh_tokens) : r.is_revoked
        /\ \E r \in refresh_tokens : r.user_id = calls[1].uid /\ ~ r.is_revoked
        /\ \E r \in refresh_tokens : r.user_id # calls[1].uid /\ ~ r.is_revoked

(* C29: revocation is permanent and records are never removed except by      *)
(* account deletion: no operation changes is_revoked from true to false, no  *)
(* operation other than a successful deleteAccount (for the records of the   *)
(* deleted account) removes a refresh record, and a token whose record has   *)
(* been revoked does not refresh successfully.                               *)
C29_RevocationPermanent ==
    [][/\ \A r \in refresh_tokens :
            \/ \E r2 \in refresh_tokens' :
                  /\ r2.id = r.id
                  /\ r2 = [r EXCEPT !.is_revoked = r2.is_revoked]
                  /\ r.is_revoked => r2.is_revoked
            \/ /\ \A r2 \in refresh_tokens' : r2.id # r.id
               /\ calls'[1].op = "deleteAccount" /\ calls'[1].status = 200
               /\ calls'[1].uid = r.user_id
               /\ Gone(r.user_id, users')
       /\ \A k \in issued :
            ( /\ Called("refresh")
              /\ calls'[1].args.refreshToken = {k}
              /\ \E r \in RecordsOf(k, refresh_tokens) : r.is_revoked )
            => ~ Succeeded(calls'[1])
      ]_vars

\* a refresh was refused for an unexpired token of an active account whose
\* record had been revoked by a rotation or a session revocation and is still
\* in the ledger, revoked, next to a usable record of the same account
C29_Witness ==
    \E k \in issued :
        /\ calls[1].op = "refresh" /\ calls[1].args.refreshToken = {k}
        /\ InvalidTokenError(calls[1]) /\ now < k.exp
        /\ \E r \in RecordsOf(k, refresh_tokens) : r.is_revoked
        /\ \A i \in 1..Len(auth_logs) :
              auth_logs[i].event_type \notin {"logout", "password_change"}
        /\ \E u \in users : u.id = k.userId /\ u.is_active
        /\ \E r \in refresh_tokens : r.user_id = k.userId /\ ~ r.is_revoked

(* C30: the audit log is append-only: across every sequence of operations,   *)
(* deleteAccount included, the events already recorded are never deleted     *)
(* and none of their fields (user_id included) is changed; operations only   *)
(* add events.                                                               *)
C30_AuditAppendOnly ==
    [][/\ Len(auth_logs') >= Len(auth_logs)
       /\ SubSeq(auth_logs', 1, Len(auth_logs)) = auth_logs
      ]_vars

--------------------------------------------------------------------------
(* Vocabulary of the last properties *)

\* two register calls ask for the same username or the same email
Collide(f, g) ==
    /\ f.op = "register" /\ g.op = "register"
    /\ \/ f.args.username = g.args.username
       \/ f.args.email = g.args.email

(* C31: in every reachable state, in every interleaving of concurrent        *)
(* register calls, no two user rows share a username or an email, and of     *)
(* register calls that collide on username or email at most one returns      *)
(* success with tokens.                                                      *)
C31_UniqueIdentifiers ==
    /\ \A u, v \in users :
          u # v => u.id # v.id /\ u.username # v.username /\ u.email # v.email
    /\ \A p, q \in Procs :
          ( p # q /\ Collide(calls[p], calls[q]) )
          => ~ (Succeeded(calls[p]) /\ Succeeded(calls[q]))

\* two colliding register calls both passed the existence check; one has
\* succeeded and the other was refused by the insert
C31_Witness ==
    \E p, q \in Procs :
        /\ p # q /\ Collide(calls[p], calls[q])
        /\ Succeeded(calls[p])
        /\ calls[q].pc = "done" /\ calls[q].status = 400
        /\ calls[q].message = "Failed to create user"
        /\ Cardinality(users) = 1

\* the lock of the account has run out at time t
Elapsed(u, t) == u.locked_until # NULL /\ ~ (u.locked_until > t)

(* C32: lock expiry does not reset the failure counter: an account whose     *)
(* locked_until is set still holds a counter of at least maxLoginAttempts,   *)
(* the passing of time changes no user row, and the first wrong-password     *)
(* login after the lock has elapsed raises the counter by one, sets a new    *)
(* locked_until and leaves the account Locked after that single failure.     *)
C32_ExpiryKeepsCounter ==
    [][/\ \A u \in users :
            u.locked_until # NULL => u.failed_login_attempts >= maxAttempts(env)
       /\ now' # now => users' = users
       /\ \A u \in users :
            ( /\ Called("login")
              /\ calls'[1].args.identifier \in Names(u)
              /\ u.is_active /\ Elapsed(u, now)
              /\ ~ Correct(u, calls'[1].args.password) )
            => /\ InvalidCredentialsError(calls'[1])
               /\ After(u).failed_login_attempts = u.failed_login_attempts + 1
               /\ After(u).locked_until = now + LockoutMinutes
               /\ After(u).locked_until > u.locked_until
               /\ Locked(After(u), now')
      ]_vars

\* the lock of an account ran out and one more wrong password locked it again:
\* maxLoginAttempts + 1 passwords were tested, no login succeeded, and the
\* lock in force started after the first one had elapsed
C32_Witness ==
    \E u \in users :
        /\ calls[1].op = "login" /\ InvalidCredentialsError(calls[1])
        /\ calls[1].user # {} /\ Elapsed(Row(calls[1].user), now)
        /\ Tested(u.id, auth_logs) = maxAttempts(env) + 1
        /\ u.failed_login_attempts = maxAttempts(env) + 1
        /\ u.last_login = NULL
        /\ Locked(u, now)

(* C33: in every reachable state and for every user,                         *)
(* failed_login_attempts >= 0, and locked_until is non-null only if          *)
(* failed_login_attempts >= maxLoginAttempts; this holds after any sequence  *)
(* and any interleaving of login calls on the account.                       *)
C33_LockImpliesCounter ==
    \A u \in users :
        /\ u.failed_login_attempts >= 0
        /\ u.locked_until # NULL => u.failed_login_attempts >= maxAttempts(env)

\* the changePassword call f has returned success
PasswordChanged(f) == f.op = "changePassword" /\ f.pc = "done" /\ f.status = 200

(* C34: for every interleaving of changePassword with concurrent login and   *)
(* refresh calls of the same user: once changePassword has returned          *)
(* success, no non-revoked refresh record exists for that user that was      *)
(* created by a login or refresh which verified its credential (the old      *)
(* password or a pre-change refresh token) before the password was updated.  *)
(* Where the new password is never used to log in, every record of the user  *)
(* stems from such a credential, so none of them may be usable.              *)
C34_ChangeRevokesAll ==
    \A q \in Procs :
        PasswordChanged(calls[q])
        => \A r \in refresh_tokens : r.user_id = calls[q].uid => r.is_revoked

\* the events that the step appends
Appended == SubSeq(auth_logs', Len(auth_logs) + 1, Len(auth_logs'))

(* C35: an AuthEvent of type account_deletion with success = true is         *)
(* recorded only if the user row was actually deleted: when the delete       *)
(* write fails and deleteAccount reports a failure, the audit log contains   *)
(* no success account_deletion event for that call.                          *)
C35_DeletionEventOnlyIfDeleted ==
    [][( /\ Called("deleteAccount") /\ Authenticated(calls'[1])
         /\ \E i \in 1..Len(Appended) :
               Appended[i].event_type = "account_deletion" /\ Appended[i].success )
       => /\ calls'[1].status = 200
          /\ Gone(calls'[1].uid, users')
      ]_vars

(* C36: each successful registration through the register endpoint appends   *)
(* exactly one register AuthEvent with success = true.                       *)
C36_OneRegisterEvent ==
    [][( /\ Called("register") /\ Succeeded(calls'[1]) )
       => Len(SelectSeq(Appended,
                        LAMBDA ev : ev.event_type = "register" /\ ev.success)) = 1
      ]_vars

\* the routes behind authenticateToken
Protected == {"logout", "changePassword", "deleteAccount", "revokeSession",
              "revokeAllSessions"}

\* the bearer value verifies as an access token at time t and names a user
\* that exists with is_active = true
GoodBearer(bearer, t) ==
    \E k \in bearer :
        /\ jwtVerify(k, env.JWT_SECRET, t)
        /\ \E u \in users : u.id = k.userId /\ u.is_active

(* C37: authenticateToken calls next() if and only if the bearer token       *)
(* verifies as an access token and the user it names exists with             *)
(* is_active = true, and otherwise responds 401 without calling next() (the  *)
(* handler changes nothing); the refresh-token ledger plays no part, so an   *)
(* unexpired access token keeps authenticating after logout, session         *)
(* revocation or changePassword.                                             *)
C37_MiddlewareGate ==
    [][\A op \in Protected :
        Served(op)
        => LET good == GoodBearer(calls'[1].args.accessToken, now)
           IN /\ Authenticated(calls'[1]) <=> good
              /\ good => calls'[1].uid = Row(calls'[1].args.accessToken).userId
              /\ ~ good => /\ calls'[1].status = 401
                           /\ users' = users /\ refresh_tokens' = refresh_tokens
                           /\ auth_logs' = auth_logs
      ]_vars

\* a protected request was let through on an access token of a user whose
\* refresh records are all revoked, after a logout or a password change
C37_Witness ==
    /\ calls[1].op \in Protected /\ Authenticated(calls[1])
    /\ calls[1].status = 200
    /\ \E r \in refresh_tokens : r.user_id = calls[1].uid
    /\ \A r \in refresh_tokens : r.user_id = calls[1].uid => r.is_revoked
    /\ Len(SelectSeq(auth_logs, LAMBDA ev : ev.user_id = calls[1].uid
                        /\ ev.event_type \in {"logout", "password_change"})) >= 2

\* the refresh of task i succeeded and nothing has revoked what it returned
LatestRefresh(i) ==
    /\ client.tasks[i].refreshed = "ok"
    /\ \E r \in RecordsOf(Row(client.tasks[i].tokens).refreshToken, refresh_tokens) :
           ~ r.is_revoked

\* the service holds the token pair that task i's refresh returned
Holds(i) ==
    /\ client.accessToken = {Row(client.tasks[i].tokens).accessToken}
    /\ client.refreshToken = {Row(client.tasks[i].tokens).refreshToken}

(* C38: client AuthService: when two authenticatedRequest calls run          *)
(* concurrently and both receive 401, then once both have completed the      *)
(* client holds the token pair of the latest successful refresh: a failed    *)
(* refresh in one call does not clear the tokens the other call's            *)
(* successful refresh stored.                                                *)
C38_ClientKeepsLatestPair ==
    ( /\ \A i \in Tasks : client.tasks[i].pc = "done" /\ client.tasks[i].unauthorized
      /\ \E i \in Tasks : client.tasks[i].refreshed = "ok" )
    => \E i \in Tasks : LatestRefresh(i) /\ Holds(i)

\* the value the response reports for a parameter: available
ReportsAvailable(f, key) == availability(f)[key] = {TRUE}

(* C39: checkAvailability reports a requested username as available if and   *)
(* only if no user row has that username, and a requested email as           *)
(* available if and only if no user row has that email, for every            *)
(* combination of supplied parameters; and a register call that directly     *)
(* follows, with values the check reported as available, is not rejected.    *)
C39_AvailabilityIsExact ==
    [][ /\ ( Called("checkAvailability") /\ calls'[1].status = 200 )
           => LET f == calls'[1]
              IN /\ f.args.username # ""
                      => ( ReportsAvailable(f, "username")
                           <=> ~ \E u \in users : u.username = f.args.username )
                 /\ f.args.email # ""
                      => ( ReportsAvailable(f, "email")
                           <=> ~ \E u \in users : u.email = f.args.email )
        /\ ( /\ Called("register")
             /\ calls[1].op = "checkAvailability" /\ calls[1].status = 200
             /\ calls[1].args.username = calls'[1].args.username
             /\ calls[1].args.email = calls'[1].args.email
             /\ ReportsAvailable(calls[1], "username")
             /\ ReportsAvailable(calls[1], "email") )
           => Succeeded(calls'[1])
      ]_vars

\* the zones the store query of the call returns
FetchedZones(f) == selectDangerZones(DB, f.args.severity_level, f.args.verified_only)

\* the distance the call computes for zone z, and its radius, in metres
ZoneDistance(f, z) ==
    calculateDistance(Row(f.args.latitude), Row(f.args.longitude), z.latitude, z.longitude)

RadiusOf(f) == IF f.args.radius = {} THEN DefaultRadius * 1000 ELSE Row(f.args.radius) * 1000

(* C40: getDangerZones called with both latitude and longitude responds      *)
(* with success and exactly those fetched zones whose computed distance      *)
(* from the given point is at most radius (default 10 km): with the store    *)
(* query succeeding it does not respond with an error.                       *)
C40_ZonesWithinRadius ==
    [][( /\ Called("getDangerZones") /\ Authenticated(calls'[1])
         /\ calls'[1].args.latitude # {} /\ calls'[1].args.longitude # {} )
       => LET f == calls'[1]
          IN /\ f.status = 200
             /\ f.data = {z \in FetchedZones(f) : ZoneDistance(f, z) <= RadiusOf(f)}
      ]_vars

====
